---- MODULE Spec2Model ----
(***************************************************************************)
(* Process orchestration and streaming core of the llama desktop shell:    *)
(* LlamaService (queryModel, standardQuery, streamingQuery,                *)
(* stopAllProcesses), the IPC handlers of the main process that drive it,  *)
(* and runOnePrompt of the benchmark script.                               *)
(***************************************************************************)
EXTENDS Integers, Sequences, FiniteSets, TLC

\* ------------------------------------------------------------------ bounds
MaxCalls == 2      \* IPC query invocations (stream-query / query-model)
MaxClock == 1      \* largest value Date.now() takes
MaxOut == 1        \* stdout chunks one process writes
MaxErr == 1        \* stderr chunks one process writes
MaxStops == 1      \* invocations of 'llama:stop-processes'
MaxRuns == 2       \* runOnePrompt invocations of the benchmark

CallIds == 1..MaxCalls

\* ------------------------------------------------------------- data values
NoModel == "null"                 \* activeModel: string | null
ModelPaths == {"models/a.gguf"}
NoId == -1                        \* a reply that carries no queryId
\* exit codes of the 'close' event: 0, a non-zero code, null (ended by a signal)
Zero == "0"
NonZero == "1"
Null == "null"
ExitCodes == {Zero, NonZero, Null}
Chunks == {"tok"}
\* stderr texts, as character sequences
NoiseText == <<"l", "o", "g">>
ErrorText == <<"E", "R", "R", "O", "R">>
StderrTexts == {NoiseText, ErrorText}

VARIABLES
  clock,            \* the latest value Date.now() returned
  activeModel,      \* LlamaService.activeModel
  activeProcesses,  \* LlamaService.activeProcesses: processId -> handle
  listeners,        \* EventEmitter listeners of llamaService: data, error, end
  calls,            \* one record per IPC query invocation and its child process
  nCalls,           \* invocations so far
  nStops,           \* stop-processes invocations so far
  bench,            \* runOnePrompt of scripts/benchmark.ts
  cmd,              \* one run of the argument builder of queryModel
  dir,              \* the models directory and what was listed from it
  pipe,             \* one child process of the service with the texts it writes
  batch,            \* benchmarkAllModels of scripts/benchmark.ts
  stop,             \* stopAllProcesses over a registry whose handles may throw
  build,            \* buildLibrary / ensureLibraryIsReady of the self-building service
  timing            \* the timestamps of one runOnePrompt

vars == <<clock, activeModel, activeProcesses,
          listeners, calls, nCalls, nStops, bench, cmd, dir, pipe, batch, stop, build, timing>>

svcVars == <<clock, activeModel, activeProcesses, listeners, calls, nCalls, nStops>>

\* ------------------------------------------------------------ text helpers
\* String.prototype.toLowerCase on the letters the texts use
LowerChar(ch) ==
  CASE ch = "E" -> "e" [] ch = "R" -> "r" [] ch = "O" -> "o"
    [] ch = "F" -> "f" [] ch = "A" -> "a" [] ch = "T" -> "t" [] ch = "L" -> "l"
    [] ch = "G" -> "g" [] ch = "U" -> "u" [] ch = "X" -> "x"
    [] OTHER -> ch

ToLowerCase(s) == [i \in 1..Len(s) |-> LowerChar(s[i])]

\* String.prototype.includes
Includes(s, sub) ==
  \E i \in 0..(Len(s) - Len(sub)) : SubSeq(s, i + 1, i + Len(sub)) = sub

\* the lexical test comparing the text as it is spelled
LooksLikeError_CaseSensitive(err) ==
  \/ Includes(err, <<"e", "r", "r", "o", "r">>)
  \/ Includes(err, <<"e", "x", "c", "e", "p", "t", "i", "o", "n">>)
  \/ Includes(err, <<"f", "a", "t", "a", "l">>)

\* the lexical test of the streaming stderr handler
LooksLikeError(err) ==
  \/ Includes(ToLowerCase(err), <<"e", "r", "r", "o", "r">>)
  \/ Includes(ToLowerCase(err), <<"e", "x", "c", "e", "p", "t", "i", "o", "n">>)
  \/ Includes(ToLowerCase(err), <<"f", "a", "t", "a", "l">>)

\* ------------------------------------------------------- registry helpers
\* Map.prototype.set
MapSet(m, k, v) == [x \in (DOMAIN m) \cup {k} |-> IF x = k THEN v ELSE m[x]]

\* Map.prototype.delete
MapDelete(m, k) == [x \in (DOMAIN m) \ {k} |-> m[x]]

EmptyMap == [x \in {} |-> 0]

Size(m) == Cardinality(DOMAIN m)

\* `query_${Date.now()}` / `stream_${Date.now()}`
ProcessId(kind, now) == <<kind, now>>

\* the value stored for a process: the raw child (standardQuery) or
\* { process: child } (streamingQuery)
Handle(kind, c) == [wrapped |-> (kind = "stream"), child |-> c]

\* ------------------------------------------------------------ call records
InitCall ==
  [ via |-> "none",            \* "stream" (llama:stream-query) or "query" (llama:query-model)
    queryId |-> NoId,          \* stream handler: Date.now().toString()
    replies |-> <<>>,          \* stream handler: event.reply calls, in order
    result |-> "none",         \* query handler: "pending", "success", "failure"
    outcome |-> "none",        \* how queryModel ended
    steps |-> <<>>,            \* what queryModel did, in order
    modelAtCall |-> NoModel,   \* activeModel when queryModel was entered
    libAtCall |-> FALSE,       \* whether the library existed at that moment
    sizeBefore |-> 0,          \* registry size when the handler was entered
    othersBefore |-> {},       \* processes in flight when the handler was entered
    proc |-> "none",           \* child process: "none", "running", "closed"
    errored |-> FALSE,         \* the child emitted 'error'
    kind |-> "none",           \* spawned by standardQuery ("query") or streamingQuery ("stream")
    processId |-> <<"none", 0>>,
    stdinEnded |-> FALSE,
    watchdog |-> "none",       \* timers armed for the child: neither query path calls setTimeout
    out |-> <<>>,              \* modelOutput / fullOutput
    nErr |-> 0,                \* stderr chunks seen
    exitCode |-> "none",
    promise |-> "none",        \* the promise queryModel returned
    sigint |-> 0 ]             \* kill('SIGINT') calls on the child

Reply(ch, qid, src, payload) ==
  [ch |-> ch, queryId |-> qid, src |-> src, payload |-> payload]

\* a child process that has been spawned and has had no terminal event
Running(cs, c) == cs[c].proc = "running" /\ ~cs[c].errored

\* in flight: running, and not signalled by stopAllProcesses
InFlight(cs) == {c \in CallIds : Running(cs, c) /\ cs[c].sigint = 0}

\* -------------------------------------------------- stream-query listeners
NoListeners == [data |-> {}, error |-> {}, end |-> {}]

\* llamaService.on('data' | 'error' | 'end', ...) of one handler invocation
AddListeners(ls, h) ==
  [data |-> ls.data \cup {h}, error |-> ls.error \cup {h}, end |-> ls.end \cup {h}]

\* a cleanup() that leaves the end listener in place
Cleanup_KeepEnd(ls, L) ==
  [data |-> ls.data \ L, error |-> ls.error \ L, end |-> ls.end]

\* cleanup() of the handler invocations in L
Cleanup(ls, L) ==
  [data |-> ls.data \ L, error |-> ls.error \ L, end |-> ls.end \ L]

\* event.reply(channel, {queryId, ...}) by each handler invocation in L;
\* src is the call whose process (or promise) produced the event
Deliver(cs, L, ch, src, payload) ==
  [h \in CallIds |->
     IF h \in L
       THEN [cs[h] EXCEPT !.replies = Append(@, Reply(ch, cs[h].queryId, src, payload))]
       ELSE cs[h]]

\* resolve(value) of the promise of call c, and the continuation of its caller
Resolve(cs, c) ==
  IF cs[c].promise # "pending" THEN cs
  ELSE [cs EXCEPT ![c].promise = "resolved",
                  ![c].result = IF cs[c].via = "query" THEN "success" ELSE @]

\* a stream handler with no .catch on the promise of queryModel
CatchTargets_None(cs, c) == {}

\* the invocations whose errorHandler the .catch of the stream handler calls
\* when the promise of call c is rejected
CatchTargets(cs, c) ==
  IF cs[c].promise = "pending" /\ cs[c].via = "stream" THEN {c} ELSE {}

\* reject(error) of the promise of call c, and the continuation of its caller:
\* the stream handler's .catch calls errorHandler, the query handler returns
\* {success: false, error}
Reject(cs, c) ==
  IF cs[c].promise # "pending" THEN cs
  ELSE LET settled == [cs EXCEPT ![c].promise = "rejected",
                                 ![c].result = IF cs[c].via = "query" THEN "failure" ELSE @]
       IN Deliver(settled, CatchTargets(cs, c), "error", c, <<"rejected">>)

\* ------------------------------------------------------------- benchmark
RunIds == 1..MaxRuns

\* one runOnePrompt invocation and its child process
InitRun ==
  [ proc |-> "none",           \* child process: "none", "running", "closed"
    probed |-> "none",         \* the help invocation: "ok" or "failed"
    fallback |-> FALSE,        \* spawned by the catch of benchmarkAllModels
    errored |-> FALSE,         \* the child emitted 'error'
    stdinEnded |-> FALSE,      \* child.stdin.end()
    quitWritten |-> FALSE,     \* child.stdin.write('q\n') by the watchdog
    watchdog |-> "none",       \* timeoutId: "armed", "cleared", "fired"
    escalation |-> "none",     \* the inner 1000 ms timer: "armed", "fired"
    killed |-> FALSE,          \* child.killed: a kill() reached the live child
    sigint |-> 0,              \* child.kill('SIGINT') calls
    killAfterClose |-> FALSE,  \* kill('SIGINT') was called after 'close'
    out |-> <<>>,              \* modelOutput
    nErr |-> 0,                \* stderr chunks seen
    exitCode |-> "none",
    promise |-> "none" ]       \* "pending", "resolved" (a result), "rejected" (an error)

InitBench == [n |-> 0, runs |-> [r \in RunIds |-> InitRun]]

\* ------------------------------------------------- options of queryModel
\* the fields of ModelOptions
Fields == {"temperature", "topP", "maxTokens", "seed", "contextSize", "streaming"}

\* a field of an options object: not an own property, an own property holding
\* undefined, or an own property holding a number or a boolean (temperature
\* and topP are counted in tenths)
Absent == [t |-> "absent"]
Undefined == [t |-> "undefined"]
Num(n) == [t |-> "number", n |-> n]
Bool(b) == [t |-> "boolean", b |-> b]

HoldsValue(v) == v.t \in {"number", "boolean"}

DEFAULT_OPTIONS ==
  [ temperature |-> Num(7), topP |-> Num(9), maxTokens |-> Num(500),
    seed |-> Num(42), contextSize |-> Num(2048), streaming |-> Bool(FALSE) ]

\* the value a caller may supply for a field
Supplied ==
  [ temperature |-> Num(2), topP |-> Num(5), maxTokens |-> Num(50),
    seed |-> Num(1), contextSize |-> Num(4096), streaming |-> Bool(TRUE) ]

\* the options objects a caller may pass: every field absent, unset or supplied
OptionRecords == {o \in [Fields -> {"absent", "undefined", "supplied"}] : TRUE}

OptionsOf(o) ==
  [f \in Fields |-> CASE o[f] = "absent" -> Absent
                      [] o[f] = "undefined" -> Undefined
                      [] OTHER -> Supplied[f]]

\* { ...a, ...b }: every own property of b, unset ones included, replaces a's
Spread(a, b) == [f \in Fields |-> IF b[f].t = "absent" THEN a[f] ELSE b[f]]

\* x || dflt on a numeric field
OrElse(x, dflt) == IF x.t = "number" /\ x.n # 0 THEN x.n ELSE dflt

Min(a, b) == IF a <= b THEN a ELSE b
Max(a, b) == IF a >= b THEN a ELSE b

\* streamingOptions of the stream-query handler
StreamingOptions(options) ==
  [options EXCEPT !.streaming = Bool(TRUE),
                  !.contextSize = Num(Min(OrElse(options.contextSize, 2048), 512)),
                  !.maxTokens = Num(Min(OrElse(options.maxTokens, 500), 100))]

\* mergedOptions of queryModel
MergedOptions(options) == Spread(DEFAULT_OPTIONS, options)

\* Number.prototype.toString of a number counted in tenths
TenthsToString(n) ==
  IF n % 10 = 0 THEN ToString(n \div 10)
  ELSE ToString(n \div 10) \o "." \o ToString(n % 10)

\* ------------------------------------------- argument vector of queryModel
\* the optional flags queryModel looks for in the help output, in the order
\* it looks for them
OptionalFlags == <<"--top-p", "--no-display-prompt", "--no-interactive", "--no-cnv", "-no-cnv">>

FlagChars(flag) ==
  CASE flag = "--top-p" -> <<"-", "-", "t", "o", "p", "-", "p">>
    [] flag = "--no-display-prompt" ->
         <<"-", "-", "n", "o", "-", "d", "i", "s", "p", "l", "a", "y", "-",
           "p", "r", "o", "m", "p", "t">>
    [] flag = "--no-interactive" ->
         <<"-", "-", "n", "o", "-", "i", "n", "t", "e", "r", "a", "c", "t", "i", "v", "e">>
    [] flag = "--no-cnv" -> <<"-", "-", "n", "o", "-", "c", "n", "v">>
    [] flag = "-no-cnv" -> <<"-", "n", "o", "-", "c", "n", "v">>

FlagSet == {OptionalFlags[i] : i \in 1..Len(OptionalFlags)}

\* the help output of a binary that documents the flags in lines, one per line
RECURSIVE HelpFrom(_, _)
HelpFrom(i, lines) ==
  IF i > Len(OptionalFlags) THEN <<>>
  ELSE (IF OptionalFlags[i] \in lines
          THEN <<" ">> \o FlagChars(OptionalFlags[i]) \o <<"\n">>
          ELSE <<>>) \o HelpFrom(i + 1, lines)

HelpOutput(lines) == <<"u", "s", "a", "g", "e", ":", "\n">> \o HelpFrom(1, lines)

\* versionOutput.includes(flag)
Supports(help, flag) == Includes(help, FlagChars(flag))

\* the thread count without its lower limit
ThreadCount_NoFloor(cpus) == cpus - 1

\* Math.max(1, os.cpus().length - 1)
ThreadCount(cpus) == Max(1, cpus - 1)

\* the seven required flags with their values
RequiredArgs(modelPath, prompt, merged, cpus) ==
  << "-m", modelPath,
     "-p", prompt,
     "--temp", TenthsToString(merged.temperature.n),
     "--seed", ToString(merged.seed.n),
     "--ctx-size", ToString(merged.contextSize.n),
     "--n-predict", ToString(merged.maxTokens.n),
     "--threads", ToString(ThreadCount(cpus)) >>

\* every optional flag pushed whatever the help output says
OptionalArgs_Always(merged, help) ==
  <<"--top-p", TenthsToString(merged.topP.n),
    "--no-display-prompt", "--no-interactive", "--no-cnv">>

\* the flags pushed after the required ones
OptionalArgs(merged, help) ==
  (IF Supports(help, "--top-p")
     THEN <<"--top-p", TenthsToString(merged.topP.n)>> ELSE <<>>)
  \o (IF Supports(help, "--no-display-prompt") THEN <<"--no-display-prompt">> ELSE <<>>)
  \o (IF Supports(help, "--no-interactive") THEN <<"--no-interactive">> ELSE <<>>)
  \o (IF Supports(help, "--no-cnv") THEN <<"--no-cnv">>
      ELSE IF Supports(help, "-no-cnv") THEN <<"-no-cnv">>
      ELSE <<>>)

\* x!.toString() throws a TypeError on a field that holds no value
ArgsThrow(merged, help) ==
  \/ \E f \in {"temperature", "seed", "contextSize", "maxTokens"} : ~HoldsValue(merged[f])
  \/ Supports(help, "--top-p") /\ ~HoldsValue(merged.topP)

BuildArgs(modelPath, prompt, merged, help, cpus) ==
  RequiredArgs(modelPath, prompt, merged, cpus) \o OptionalArgs(merged, help)

\* one run of the builder: what was passed in, and what came out
CmdIdle ==
  [ options |-> [f \in Fields |-> "absent"],  \* the options object of the caller
    lines |-> {},               \* the flags the help output documents
    cpus |-> 1,                 \* os.cpus().length
    via |-> "none",             \* "query" or "stream": the handler that called
    merged |-> [f \in Fields |-> Absent],
    threw |-> FALSE,            \* building the vector threw
    args |-> <<>> ]

CpuCounts == {1, 2, 8}

CmdInputs ==
  {[CmdIdle EXCEPT !.options = o, !.lines = l, !.cpus = n] :
     o \in OptionRecords, l \in SUBSET FlagSet, n \in CpuCounts}

\* queryModel(prompt, options) from the merge to the finished vector
BuildCommand(via, options) ==
  LET merged == MergedOptions(options)
      help == HelpOutput(cmd.lines)
      threw == ArgsThrow(merged, help)
  IN [cmd EXCEPT !.via = via,
                 !.merged = merged,
                 !.threw = threw,
                 !.args = IF threw THEN <<>>
                          ELSE BuildArgs("models/a.gguf", "hi", merged, help, cmd.cpus)]

\* ------------------------------------------------------ models directory
MaxEntries == 3    \* directory entries of the models directory

\* this.modelsDir, an absolute path
ModelsDir == "/app/assets/llama/models"

FileNames == {"a.gguf", "b.GGUF", "c.txt"}

NameChars(name) ==
  CASE name = "a.gguf" -> <<"a", ".", "g", "g", "u", "f">>
    [] name = "b.GGUF" -> <<"b", ".", "G", "G", "U", "F">>
    [] name = "c.txt" -> <<"c", ".", "t", "x", "t">>

\* what a directory entry is: a file that starts with the GGUF magic, a file
\* that starts with other bytes, a file that cannot be opened or read, an
\* entry statSync fails on (a dangling link, a file removed after the listing)
FileKinds == {"gguf", "other", "unreadable", "gone"}

Files == [name : FileNames, kind : FileKinds]

\* readdirSync lists every name once
DistinctNames(es) == \A i, j \in 1..Len(es) : es[i].name = es[j].name => i = j

Listings == {es \in UNION {[1..n -> Files] : n \in 0..MaxEntries} : DistinctNames(es)}

DirStatus == {"ok", "absent", "unreadable"}

\* String.prototype.endsWith
EndsWith(s, suffix) ==
  /\ Len(s) >= Len(suffix)
  /\ SubSeq(s, Len(s) - Len(suffix) + 1, Len(s)) = suffix

\* the filter of getAvailableModels comparing the name as it is spelled
IsModelFile_CaseSensitive(name) ==
  EndsWith(NameChars(name), <<".", "g", "g", "u", "f">>)

\* file.toLowerCase().endsWith('.gguf')
IsModelFile(name) ==
  EndsWith(ToLowerCase(NameChars(name)), <<".", "g", "g", "u", "f">>)

\* path.join(this.modelsDir, file)
PathJoin(d, file) == [dir |-> d, base |-> file]

\* path.basename
Basename(path) == path.base

RECURSIVE MapPaths(_)
MapPaths(names) ==
  IF names = <<>> THEN <<>>
  ELSE <<PathJoin(ModelsDir, Head(names).name)>> \o MapPaths(Tail(names))

\* getAvailableModels: [] when the directory is absent, and when readdirSync
\* throws (the catch returns [])
GetAvailableModels(status, entries) ==
  IF status # "ok" THEN <<>>
  ELSE MapPaths(SelectSeq(entries, LAMBDA e : IsModelFile(e.name)))

\* the directory entry a listed path names
FileAt(entries, path) ==
  CHOOSE e \in {entries[i] : i \in 1..Len(entries)} : e.name = Basename(path)

\* the ModelInfo checkModels pushes for one file: isValid and modelType after
\* the header check (the inner catch leaves modelType "Unknown")
ModelInfoOf(path, file) ==
  [ name |-> Basename(path),
    path |-> path,
    isValid |-> file.kind = "gguf",
    modelType |-> IF file.kind = "gguf" THEN "GGUF" ELSE "Unknown" ]

RECURSIVE MapInfos(_, _)
MapInfos(entries, paths) ==
  IF paths = <<>> THEN <<>>
  ELSE <<ModelInfoOf(Head(paths), FileAt(entries, Head(paths)))>>
         \o MapInfos(entries, Tail(paths))

\* checkModels: fs.statSync is outside the inner try, so when it throws the
\* outer catch returns []
CheckModels(status, entries) ==
  LET modelPaths == GetAvailableModels(status, entries)
  IN IF \E i \in 1..Len(modelPaths) : FileAt(entries, modelPaths[i]).kind = "gone"
       THEN <<>>
       ELSE MapInfos(entries, modelPaths)

DirIdle ==
  [ status |-> "ok",
    entries |-> <<>>,
    op |-> "none",              \* "getAvailableModels" or "checkModels"
    listed |-> <<>>,            \* what getAvailableModels returned
    infos |-> <<>>,             \* what checkModels returned
    loads |-> 0,                \* loadModel calls so far
    arg |-> "",                 \* the modelPath of the last loadModel call
    lib |-> FALSE,              \* whether the shared library existed at that call
    before |-> NoModel,         \* activeModel when it was entered
    loaded |-> "none",          \* what it returned: "true" or "false"
    used |-> "" ]               \* modelPath of a queryModel call since the last loadModel

DirInputs ==
  {[DirIdle EXCEPT !.status = st, !.entries = es] : st \in DirStatus, es \in Listings}

\* ------------------------------------------------- loadModel by name
MaxLoads == 2      \* loadModel calls

\* the bare names a caller passes (no separator, not absolute)
BareNames == {"gguf", "b", ".", "z"}

BareChars(name) ==
  CASE name = "gguf" -> <<"g", "g", "u", "f">>
    [] name = "b" -> <<"b">>
    [] name = "." -> <<".">>
    [] name = "z" -> <<"z">>

\* the full paths a caller passes: a file of the models directory
FullPaths == {ModelsDir \o "/" \o f : f \in FileNames}

\* a path as the string the active-model slot holds
PathString(path) == path.dir \o "/" \o path.base

\* path.basename(m).includes(modelPath)
Matches(path, name) == Includes(NameChars(Basename(path)), BareChars(name))

\* the last of the matching models
Selected_Last(matching) == matching[Len(matching)]

\* matchingModels[0]
Selected(matching) == matching[1]

\* fs.existsSync of a path of the models directory: the directory is there and
\* holds an entry of that name that is not a dangling link
ExistsSync(status, entries, pathString) ==
  /\ status = "ok"
  /\ \E i \in 1..Len(entries) :
       /\ PathString(PathJoin(ModelsDir, entries[i].name)) = pathString
       /\ entries[i].kind # "gone"

\* loadModel(modelPath): the path it resolves to, "" when nothing matches
ResolveModel(status, entries, modelPath) ==
  IF modelPath \in BareNames
    THEN LET matching == SelectSeq(GetAvailableModels(status, entries),
                                   LAMBDA m : Matches(m, modelPath))
         IN IF Len(matching) = 0 THEN "" ELSE PathString(Selected(matching))
    ELSE modelPath

\* loadModel(modelPath): true or false
LoadModelResult(status, entries, modelPath, libExists) ==
  /\ libExists
  /\ ResolveModel(status, entries, modelPath) # ""
  /\ ExistsSync(status, entries, ResolveModel(status, entries, modelPath))

\* ------------------------------------------------- the batch benchmark
\* models listed at most, and prompts run per model (PROMPTS holds five)
MaxModels == 2
MaxPrompts == 2

\* values Date.now() returns, in milliseconds
Readings == {10000, 12000}

\* the results of a division of two numbers
Infinity == [t |-> "Infinity"]
NaN == [t |-> "NaN"]

\* a / b of two non-negative numbers (the quotients that occur are whole)
Divide(a, b) ==
  IF b = 0 THEN (IF a = 0 THEN NaN ELSE Infinity) ELSE Num(a \div b)

\* estimateTokenCount of an output with or without non-blank text
EstimateTokenCount(texted) == IF texted THEN 4 ELSE 0

\* what runOnePrompt resolves with, from the clock readings at its start, at
\* the first and the last non-blank chunk and at close
PromptTiming(texted, start, first, last, end) ==
  [ tokenCount |-> EstimateTokenCount(texted),
    timeSeconds |-> (end - start) \div 1000,
    setupTimeSeconds |-> IF texted THEN (first - start) \div 1000
                         ELSE (end - start) \div 1000,
    generationTimeSeconds |-> IF texted THEN (last - first) \div 1000 ELSE 0 ]

\* tokensPerSecond: result.tokenCount / result.timeSeconds
TokensPerSecond(result) == Divide(result.tokenCount, result.timeSeconds)

\* generationTPS
GenerationTPS(result) ==
  IF result.generationTimeSeconds > 0
  THEN Divide(result.tokenCount, result.generationTimeSeconds)
  ELSE Num(0)

\* the entry benchmarkModel stores for a prompt that resolved
PromptResult(prompt, result) ==
  [ prompt |-> prompt,
    error |-> FALSE,
    tokenCount |-> result.tokenCount,
    timeSeconds |-> result.timeSeconds,
    setupTimeSeconds |-> result.setupTimeSeconds,
    generationTimeSeconds |-> result.generationTimeSeconds,
    tokensPerSecond |-> TokensPerSecond(result),
    generationTokensPerSecond |-> GenerationTPS(result) ]

\* the entry benchmarkModel stores for a prompt that rejected
PromptError(prompt) == [prompt |-> prompt, error |-> TRUE]

\* avgTPS and avgGenerationTPS
AverageTPS(totalTokens, total) ==
  IF totalTokens > 0 /\ total > 0 THEN Divide(totalTokens, total) ELSE Num(0)

\* the BenchmarkSuccess of the model being benchmarked
BenchmarkSuccess(b) ==
  [ model |-> b.model,
    error |-> FALSE,
    totalTokens |-> b.totalTokens,
    totalTime |-> b.totalTime,
    totalSetupTime |-> b.totalSetupTime,
    totalGenerationTime |-> b.totalGenerationTime,
    averageTokensPerSec |-> AverageTPS(b.totalTokens, b.totalTime),
    averageGenerationTokensPerSec |->
      AverageTPS(b.totalTokens, b.totalGenerationTime) ]

\* the BenchmarkError of the model being benchmarked
BenchmarkError(b) == [model |-> b.model, error |-> TRUE]

\* the script before benchmarkAllModels runs
BatchIdle ==
  [ phase |-> "idle",          \* "refused", "running", "done", "aborted"
    deleteAfter |-> FALSE,     \* deleteAfterBenchmark
    listed |-> 0,              \* modelPaths.length
    model |-> 0,               \* index in modelPaths of the model being benchmarked
    prompts |-> <<>>,          \* results of benchmarkModel
    totalTokens |-> 0,
    totalTime |-> 0,
    totalSetupTime |-> 0,
    totalGenerationTime |-> 0,
    results |-> <<>> ]         \* results of benchmarkAllModels

\* ------------------------------------------ stopAllProcesses, handle by handle
\* handles registered at most, and stop-processes invocations
MaxHandles == 3
MaxStopCalls == 2

HandleIds == 1..MaxHandles

\* the registry (in insertion order, as a Map iterates) with no process yet
StopIdle ==
  [ reg |-> <<>>,              \* activeProcesses: children, in insertion order
    wrapped |-> {},            \* the children stored as { process: child }
    spawned |-> 0,             \* children spawned so far
    signalled |-> {},          \* children whose kill('SIGINT') returned
    threw |-> {},              \* children whose kill('SIGINT') threw
    result |-> "none",         \* reply of the last llama:stop-processes
    n |-> 0 ]                  \* stop-processes invocations so far

\* a stopAllProcesses without the try around the kill: the first handle that
\* throws ends the loop, the registry is not cleared, the exception leaves
StopLoop_NoTry(reg, throwing) ==
  LET bad == {i \in 1..Len(reg) : reg[i] \in throwing}
      first == IF bad = {} THEN Len(reg) + 1
               ELSE CHOOSE i \in bad : \A j \in bad : i <= j
  IN [ signalled |-> {reg[i] : i \in 1..(first - 1)},
       threw |-> {reg[i] : i \in {first} \cap bad},
       reg |-> IF bad = {} THEN <<>> ELSE reg,
       thrown |-> bad # {} ]

\* stopAllProcesses: kill('SIGINT') on each handle in turn inside a try, then
\* activeProcesses.clear(); throwing are the children whose kill throws
StopLoop(reg, throwing) ==
  [ signalled |-> {reg[i] : i \in {j \in 1..Len(reg) : reg[j] \notin throwing}},
    threw |-> {reg[i] : i \in {j \in 1..Len(reg) : reg[j] \in throwing}},
    reg |-> <<>>,
    thrown |-> FALSE ]

\* ------------------------------------------------ the self-building service
\* concurrent callers of ensureLibraryIsReady, calls in all, and the awaited
\* child processes of one build (git clone, cmake, cmake --build)
MaxCallers == 3
MaxEnsureCalls == 4
BuildStages == 3

Callers == 1..MaxCallers

\* the service after construction, the library not on disk
BuildIdle ==
  [ isBuildingLibrary |-> FALSE,
    lib |-> FALSE,             \* fs.existsSync(libFullPath)
    pc |-> [c \in Callers |-> "idle"],      \* "building", "waiting", "done"
    result |-> [c \in Callers |-> "none"],  \* what ensureLibraryIsReady returned
    waited |-> [c \in Callers |-> FALSE],   \* the call went through the wait loop
    stage |-> 0,               \* the awaited child of the build in progress
    calls |-> 0 ]              \* ensureLibraryIsReady calls so far

\* a buildLibrary whose flag is reset on the success path only
FlagAfterBuild_SuccessOnly(success) == ~success

\* isBuildingLibrary when buildLibrary leaves its try: the finally resets it
FlagAfterBuild(success) == FALSE

\* the entry guard of buildLibrary: a build starts unless one is in progress
MayBuild(b) == ~b.isBuildingLibrary

\* ------------------------------------------- the timestamps of runOnePrompt
\* chunks of one run at most, and clock readings after the first
MaxChunks == 3
MaxTicks == 3

\* firstTokenTime / lastTokenTime before a token arrived: null, which the
\* tests of the close handler take for false as they would the number 0
NullTime == 0

\* stdout texts: blank ones and ones with a token
TimedTexts == {<<" ">>, <<" ", "\n">>, <<"h", "i">>, <<" ", "!">>}

\* text.trim().length > 0 taken for true of every text
HasToken_Always(text) == TRUE

\* text.trim().length > 0
HasToken(text) == \E i \in 1..Len(text) : text[i] \notin {" ", "\n"}

\* one run of runOnePrompt before it starts
TimingIdle ==
  [ phase |-> "idle",          \* "running", "closed"
    now |-> 1000,              \* the latest value Date.now() returned
    processStartTime |-> 0,
    firstTokenTime |-> NullTime,
    lastTokenTime |-> NullTime,
    tokenOutputStarted |-> FALSE,
    arrivals |-> <<>>,         \* every chunk that arrived, with its arrival time
    timeSeconds |-> 0,
    setupTimeSeconds |-> 0,
    generationTimeSeconds |-> 0 ]

\* ---------------------------------------------------------------- Init
\* one child process of the service before it is spawned
PipeIdle ==
  [ kind |-> "none",           \* "query" (standardQuery) or "stream" (streamingQuery)
    proc |-> "none",           \* "running", "closed"
    errored |-> FALSE,         \* the child emitted 'error'
    arrivals |-> <<>>,         \* every chunk that arrived, in arrival order
    output |-> <<>>,           \* modelOutput / fullOutput
    emitted |-> <<>>,          \* this.emit calls of streamingQuery, in order
    promise |-> "none",        \* "pending", "resolved", "rejected"
    value |-> <<>>,            \* what the promise resolved with
    exitCode |-> "none" ]

\* the service after construction, no benchmark run started
ServiceIdle ==
  /\ clock = 0
  /\ activeModel = NoModel
  /\ activeProcesses = EmptyMap
  /\ listeners = NoListeners
  /\ calls = [c \in CallIds |-> InitCall]
  /\ nCalls = 0
  /\ nStops = 0
  /\ bench = InitBench

Init ==
  /\ ServiceIdle
  /\ cmd = CmdIdle
  /\ dir = DirIdle
  /\ pipe = PipeIdle
  /\ batch = BatchIdle
  /\ stop = StopIdle
  /\ build = BuildIdle
  /\ timing = TimingIdle

\* ------------------------------------------------------------ environment
\* ------------------------------------------------------------- loadModel
\* ipcMain.handle('llama:load-model'): ensureLibraryIsReady (libExists is what
\* fs.existsSync answers for the shared library), then the path is resolved
\* and must exist
LoadModel(m, libExists, found) ==
  /\ activeModel' = IF libExists /\ found THEN m ELSE activeModel
  /\ UNCHANGED <<clock, activeProcesses, listeners, calls,
                 nCalls, nStops, bench, cmd, dir, pipe, batch, stop, build, timing>>

\* ------------------------------------------------------------ queryModel
\* queryModel without its active-model guard
QueryModelRun_NoModelGuard(model, libExists, probeOk) ==
  IF ~libExists
    THEN [steps |-> <<"ensureLibraryIsReady">>, outcome |-> "NoLibrary"]
  ELSE IF ~probeOk
    THEN [steps |-> <<"ensureLibraryIsReady", "execSync">>, outcome |-> "ProbeFailed"]
  ELSE [steps |-> <<"ensureLibraryIsReady", "execSync", "spawn">>, outcome |-> "Spawn"]

\* queryModel running the help probe before it looks at the library
QueryModelRun_ProbeFirst(model, libExists, probeOk) ==
  IF model = NoModel
    THEN [steps |-> <<"activeModel">>, outcome |-> "NoModel"]
  ELSE IF ~probeOk
    THEN [steps |-> <<"activeModel", "execSync">>, outcome |-> "ProbeFailed"]
  ELSE IF ~libExists
    THEN [steps |-> <<"activeModel", "execSync", "ensureLibraryIsReady">>,
          outcome |-> "NoLibrary"]
  ELSE [steps |-> <<"activeModel", "execSync", "ensureLibraryIsReady", "spawn">>,
        outcome |-> "Spawn"]

\* what queryModel does, in order, and how it ends: the active-model check
\* throws "NoModel"; ensureLibraryIsReady answering false throws "NoLibrary";
\* the help probe (execSync) throwing is rethrown by the catch: "ProbeFailed";
\* otherwise the child is spawned
QueryModelRun(model, libExists, probeOk) ==
  IF model = NoModel
    THEN [steps |-> <<"activeModel">>, outcome |-> "NoModel"]
  ELSE IF ~libExists
    THEN [steps |-> <<"activeModel", "ensureLibraryIsReady">>, outcome |-> "NoLibrary"]
  ELSE IF ~probeOk
    THEN [steps |-> <<"activeModel", "ensureLibraryIsReady", "execSync">>,
          outcome |-> "ProbeFailed"]
  ELSE [steps |-> <<"activeModel", "ensureLibraryIsReady", "execSync", "spawn">>,
        outcome |-> "Spawn"]

\* step was performed
Did(steps, step) == \E i \in 1..Len(steps) : steps[i] = step

\* queryModel entered at time t0 for call c, whose record rec the handler has
\* prepared; ls are the listeners at that moment, libExists what fs.existsSync
\* answers for the shared library, probeOk whether the help invocation
\* succeeds, d the time that passes until the spawn path reads Date.now()
QueryModel(c, rec, ls, t0, streaming, libExists, probeOk, d) ==
  LET run == QueryModelRun(activeModel, libExists, probeOk)
      outcome == run.outcome
      now == IF outcome = "Spawn" THEN t0 + d ELSE t0
      kind == IF streaming THEN "stream" ELSE "query"
      pid == ProcessId(kind, now)
      entered == [rec EXCEPT !.outcome = outcome,
                             !.steps = run.steps,
                             !.modelAtCall = activeModel,
                             !.libAtCall = libExists,
                             !.sizeBefore = Size(activeProcesses),
                             !.othersBefore = InFlight(calls),
                             !.promise = "pending"]
      cs == [calls EXCEPT ![c] = entered]
  IN /\ t0 + d <= MaxClock
     /\ d > 0 => outcome = "Spawn"
     /\ clock' = now
     /\ IF outcome = "Spawn"
          THEN /\ calls' = [cs EXCEPT ![c].proc = "running",
                                     ![c].kind = kind,
                                     ![c].processId = pid,
                                     ![c].stdinEnded = TRUE]
               /\ activeProcesses' = MapSet(activeProcesses, pid, Handle(kind, c))
               /\ listeners' = ls
          ELSE /\ calls' = Reject(cs, c)
               /\ listeners' = Cleanup(ls, CatchTargets(cs, c))
               /\ UNCHANGED activeProcesses

\* ipcMain.handle('llama:query-model')
QueryModelIpc(streaming, libExists, probeOk, d) ==
  /\ nCalls < MaxCalls
  /\ nCalls' = nCalls + 1
  /\ LET c == nCalls + 1
         rec == [InitCall EXCEPT !.via = "query", !.result = "pending"]
     IN QueryModel(c, rec, listeners, clock, streaming, libExists, probeOk, d)
  /\ UNCHANGED <<activeModel, nStops, bench, cmd, dir, pipe, batch, stop, build, timing>>

\* ipcMain.on('llama:stream-query'): without options the handler throws on
\* options.contextSize and the outer catch replies an error without queryId
StreamQuery(optsGiven, libExists, probeOk, e, d) ==
  /\ nCalls < MaxCalls
  /\ nCalls' = nCalls + 1
  /\ clock + e <= MaxClock
  /\ LET c == nCalls + 1
         queryId == clock + e
         rec == [InitCall EXCEPT !.via = "stream", !.queryId = queryId]
     IN IF optsGiven
          THEN QueryModel(c,
                          [rec EXCEPT !.replies = <<Reply("start", queryId, c, <<>>)>>],
                          AddListeners(listeners, c), queryId, TRUE, libExists, probeOk, d)
          ELSE /\ d = 0 /\ probeOk /\ libExists
               /\ clock' = queryId
               /\ calls' = [calls EXCEPT ![c] =
                    [rec EXCEPT !.outcome = "HandlerThrew",
                                !.replies = <<Reply("error", NoId, c, <<"threw">>)>>]]
               /\ UNCHANGED <<activeProcesses, listeners>>
  /\ UNCHANGED <<activeModel, nStops, bench, cmd, dir, pipe, batch, stop, build, timing>>

\* ------------------------------------------------- child process events
\* child.stdout.on('data'): standardQuery appends to modelOutput;
\* streamingQuery appends to fullOutput and emits 'data'
Stdout(c, x) ==
  /\ calls[c].proc = "running"
  /\ Len(calls[c].out) < MaxOut
  /\ LET cs == [calls EXCEPT ![c].out = Append(@, x)]
     IN calls' = IF calls[c].kind = "stream"
                   THEN Deliver(cs, listeners.data, "data", c, <<x>>)
                   ELSE cs
  /\ UNCHANGED <<clock, activeModel,
                 activeProcesses, listeners, nCalls, nStops, bench, cmd, dir, pipe, batch, stop, build, timing>>

\* child.stderr.on('data'): standardQuery only logs; streamingQuery emits
\* 'error' for a text that looks like an error (with no 'error' listener the
\* emit throws and the handler's catch logs it)
Stderr(c, err) ==
  /\ calls[c].proc = "running"
  /\ calls[c].nErr < MaxErr
  /\ LET cs == [calls EXCEPT ![c].nErr = @ + 1]
         escalate == calls[c].kind = "stream" /\ LooksLikeError(err)
         L == IF escalate THEN listeners.error ELSE {}
     IN /\ calls' = Deliver(cs, L, "error", c, <<"stderr">>)
        /\ listeners' = Cleanup(listeners, L)
  /\ UNCHANGED <<clock, activeModel,
                 activeProcesses, nCalls, nStops, bench, cmd, dir, pipe, batch, stop, build, timing>>

\* a standard close handler that takes a null exit code for success
StandardSuccess_NullOk(code, out) == code = Zero \/ code = Null

\* the exit codes on which the close handler settles with success
StandardSuccess(code, out) == code = Zero
StreamingSuccess(code, out) == code = Zero \/ code = Null

\* child.on('close')
Close(c, code) ==
  /\ calls[c].proc = "running"
  /\ activeProcesses' = MapDelete(activeProcesses, calls[c].processId)
  /\ LET cs == [calls EXCEPT ![c].proc = "closed", ![c].exitCode = code]
     IN IF calls[c].kind = "query"
          THEN /\ calls' = IF StandardSuccess(code, calls[c].out)
                             THEN Resolve(cs, c) ELSE Reject(cs, c)
               /\ listeners' = IF StandardSuccess(code, calls[c].out)
                                 THEN listeners
                                 ELSE Cleanup(listeners, CatchTargets(cs, c))
          ELSE IF StreamingSuccess(code, calls[c].out)
            THEN \* emit('end', fullOutput); resolve(fullOutput)
                 /\ calls' = Resolve(Deliver(cs, listeners.end, "end", c, calls[c].out), c)
                 /\ listeners' = Cleanup(listeners, listeners.end)
            ELSE \* emit('error', error); reject(error)
                 /\ calls' = Reject(Deliver(cs, listeners.error, "error", c, <<"exit">>), c)
                 /\ listeners' = Cleanup(listeners, listeners.error \cup CatchTargets(cs, c))
  /\ UNCHANGED <<clock, activeModel, nCalls,
                 nStops, bench, cmd, dir, pipe, batch, stop, build, timing>>

\* child.on('error')
ProcError(c) ==
  /\ Running(calls, c)
  /\ activeProcesses' = MapDelete(activeProcesses, calls[c].processId)
  /\ LET cs == [calls EXCEPT ![c].errored = TRUE]
         L == IF calls[c].kind = "stream" THEN listeners.error ELSE {}
     IN /\ calls' = Reject(Deliver(cs, L, "error", c, <<"spawn">>), c)
        /\ listeners' = Cleanup(listeners, L \cup CatchTargets(cs, c))
  /\ UNCHANGED <<clock, activeModel, nCalls,
                 nStops, bench, cmd, dir, pipe, batch, stop, build, timing>>

\* ------------------------------------------------------ stopAllProcesses
\* stopAllProcesses calling kill only on raw child handles
KillTargets_RawOnly(reg) == {reg[k].child : k \in {x \in DOMAIN reg : ~reg[x].wrapped}}

\* the children stopAllProcesses calls kill('SIGINT') on: processData.process
\* of a wrapper, processData itself otherwise
KillTargets(reg) == {reg[k].child : k \in DOMAIN reg}

\* the registry stopAllProcesses leaves
StoppedRegistry(reg) == EmptyMap

\* ipcMain.handle('llama:stop-processes')
StopProcesses ==
  /\ nStops < MaxStops
  /\ nStops' = nStops + 1
  /\ calls' = [c \in CallIds |->
                 IF c \in KillTargets(activeProcesses)
                   THEN [calls[c] EXCEPT !.sigint = @ + 1]
                   ELSE calls[c]]
  /\ activeProcesses' = StoppedRegistry(activeProcesses)
  /\ UNCHANGED <<clock, activeModel, listeners,
                 nCalls, bench, cmd, dir, pipe, batch, stop, build, timing>>


\* ----------------------------------------------- runOnePrompt (benchmark)
\* settle the promise of a run; a promise settles once
Settle(run, how) ==
  IF run.promise = "pending" THEN [run EXCEPT !.promise = how] ELSE run

\* the close handler of runOnePrompt resolves when there is output
BenchSuccess(code, out) == Len(out) > 0

\* a loop that does not wait for the run it started
PreviousSettled_NoAwait(b) == TRUE

\* await runOnePrompt(...): the loop goes on when the promise of the run it
\* started has settled
PreviousSettled(b) ==
  b.n > 0 => b.runs[b.n].promise \in {"resolved", "rejected"}

\* a spawn that leaves standard input open
SpawnedRun_StdinOpen(probeOk) ==
  [InitRun EXCEPT !.probed = IF probeOk THEN "ok" ELSE "failed",
                  !.proc = "running",
                  !.watchdog = "armed",
                  !.promise = "pending"]

\* the child of runOnePrompt right after spawn: stdin ended, watchdog armed
SpawnedRun(probeOk) ==
  [InitRun EXCEPT !.probed = IF probeOk THEN "ok" ELSE "failed",
                  !.proc = "running",
                  !.stdinEnded = TRUE,
                  !.watchdog = "armed",
                  !.promise = "pending"]

\* runOnePrompt is awaited: the next run starts when the previous has settled.
\* The help probe may throw; the catch keeps the minimal argument vector and
\* the child is spawned either way.
BenchStart(probeOk) ==
  /\ bench.n < MaxRuns
  /\ PreviousSettled(bench)
  /\ bench' = [n |-> bench.n + 1,
               runs |-> [bench.runs EXCEPT ![bench.n + 1] = SpawnedRun(probeOk)]]
  /\ UNCHANGED <<svcVars, cmd, dir, pipe, batch, stop, build, timing>>

\* benchmarkAllModels of the older benchmark script: the help probe threw and
\* the catch spawns the child with the basic arguments; it ends no stdin, arms
\* no timer and listens to stdout, stderr and 'close' only
BenchFallbackStart ==
  /\ bench.n < MaxRuns
  /\ PreviousSettled(bench)
  /\ bench' = [n |-> bench.n + 1,
               runs |-> [bench.runs EXCEPT ![bench.n + 1] =
                 [InitRun EXCEPT !.probed = "failed",
                                 !.fallback = TRUE,
                                 !.proc = "running",
                                 !.promise = "pending"]]]
  /\ UNCHANGED <<svcVars, cmd, dir, pipe, batch, stop, build, timing>>

\* clearTimeout(timeoutId)
ClearWatchdog(w) == IF w = "armed" THEN "cleared" ELSE w

\* child.stdout.on('data')
BenchStdout(r, x) ==
  /\ bench.runs[r].proc = "running"
  /\ Len(bench.runs[r].out) < MaxOut
  /\ bench' = [bench EXCEPT !.runs[r].out = Append(@, x),
                            !.runs[r].watchdog = ClearWatchdog(@)]
  /\ UNCHANGED <<svcVars, cmd, dir, pipe, batch, stop, build, timing>>

\* child.stderr.on('data')
BenchStderr(r) ==
  /\ bench.runs[r].proc = "running"
  /\ bench.runs[r].nErr < MaxErr
  /\ bench' = [bench EXCEPT !.runs[r].nErr = @ + 1,
                            !.runs[r].watchdog = ClearWatchdog(@)]
  /\ UNCHANGED <<svcVars, cmd, dir, pipe, batch, stop, build, timing>>

\* the close handler of the fallback child records the output, with an error
\* unless the code is 0
FallbackSuccess(code, out) == code = Zero

\* child.on('close')
BenchClose(r, code) ==
  /\ bench.runs[r].proc = "running"
  /\ bench' = [bench EXCEPT !.runs[r] =
       Settle([@ EXCEPT !.proc = "closed",
                        !.exitCode = code,
                        !.watchdog = ClearWatchdog(@)],
              IF (IF bench.runs[r].fallback
                    THEN FallbackSuccess(code, bench.runs[r].out)
                    ELSE BenchSuccess(code, bench.runs[r].out))
                THEN "resolved" ELSE "rejected")]
  /\ UNCHANGED <<svcVars, cmd, dir, pipe, batch, stop, build, timing>>

\* child.on('error'); the fallback child has no 'error' listener
BenchError(r) ==
  /\ bench.runs[r].proc = "running"
  /\ ~bench.runs[r].errored
  /\ ~bench.runs[r].fallback
  /\ bench' = [bench EXCEPT !.runs[r] =
       Settle([@ EXCEPT !.errored = TRUE, !.watchdog = ClearWatchdog(@)], "rejected")]
  /\ UNCHANGED <<svcVars, cmd, dir, pipe, batch, stop, build, timing>>

\* the 20 s timer fires: write 'q\n' to stdin and arm the 1 s escalation
WatchdogFire(r) ==
  /\ bench.runs[r].watchdog = "armed"
  /\ bench' = [bench EXCEPT !.runs[r].watchdog = "fired",
                            !.runs[r].quitWritten = TRUE,
                            !.runs[r].escalation = "armed"]
  /\ UNCHANGED <<svcVars, cmd, dir, pipe, batch, stop, build, timing>>

\* the 1 s timer fires: kill('SIGINT') unless child.killed; kill() reaches the
\* child and sets child.killed only while the child has not exited
EscalationFire(r) ==
  /\ bench.runs[r].escalation = "armed"
  /\ bench' = [bench EXCEPT !.runs[r] =
       IF @.killed
         THEN [@ EXCEPT !.escalation = "fired"]
         ELSE [@ EXCEPT !.escalation = "fired",
                        !.killed = (bench.runs[r].proc = "running"),
                        !.sigint = @ + 1,
                        !.killAfterClose = (bench.runs[r].proc = "closed")]]
  /\ UNCHANGED <<svcVars, cmd, dir, pipe, batch, stop, build, timing>>

NextBench ==
  \/ \E probeOk \in BOOLEAN : BenchStart(probeOk)
  \/ BenchFallbackStart
  \/ \E r \in RunIds, x \in Chunks : BenchStdout(r, x)
  \/ \E r \in RunIds : BenchStderr(r)
  \/ \E r \in RunIds, code \in ExitCodes : BenchClose(r, code)
  \/ \E r \in RunIds : BenchError(r)
  \/ \E r \in RunIds : WatchdogFire(r)
  \/ \E r \in RunIds : EscalationFire(r)

SpecBench == Init /\ [][NextBench]_vars

allButPipe == <<svcVars, bench, cmd, dir, batch, stop, build, timing>>

\* --------------------------------------- one child process and its texts
MaxArrivals == 3   \* stdout and stderr chunks of the child

\* stdout chunks
StdoutTexts == {<<"h", "i">>, <<"!">>}

\* stderr chunks: the two above, and two more that name a failure
FatalText == <<"F", "a", "t", "a", "l">>
ExceptionText == <<"a", "n", " ", "e", "X", "c", "e", "p", "t", "i", "o", "n">>
PipeStderrTexts == StderrTexts \cup {FatalText, ExceptionText}

\* modelOutput += text / fullOutput += text, putting the new text first
AppendOutput_Prepend(output, text) == text \o output

\* modelOutput += text / fullOutput += text
AppendOutput(output, text) == output \o text

\* an emitter that drops the data events
Emit_NoData(p, ev, from, payload) ==
  IF p.kind = "stream" /\ ev # "data"
    THEN [p EXCEPT !.emitted = Append(@, [ev |-> ev, from |-> from, payload |-> payload])]
    ELSE p

\* this.emit(ev, payload) in the handler of the named child event
Emit(p, ev, from, payload) ==
  IF p.kind = "stream"
    THEN [p EXCEPT !.emitted = Append(@, [ev |-> ev, from |-> from, payload |-> payload])]
    ELSE p

\* resolve(value) / reject(error): a promise settles once
SettlePipe(p, how, value) ==
  IF p.promise = "pending" THEN [p EXCEPT !.promise = how, !.value = value] ELSE p

\* spawn in standardQuery or streamingQuery
PipeSpawn(kind) ==
  /\ pipe.kind = "none"
  /\ pipe' = [pipe EXCEPT !.kind = kind, !.proc = "running", !.promise = "pending"]
  /\ UNCHANGED allButPipe

\* child.stdout.on('data')
PipeStdout(text) ==
  /\ pipe.proc = "running"
  /\ Len(pipe.arrivals) < MaxArrivals
  /\ pipe' = Emit([pipe EXCEPT !.arrivals = Append(@, [fd |-> "stdout", text |-> text]),
                               !.output = AppendOutput(@, text)],
                  "data", "stdout", text)
  /\ UNCHANGED allButPipe

\* child.stderr.on('data'): logged; streamingQuery emits 'error' for a text
\* that looks like an error
PipeStderr(err) ==
  /\ pipe.proc = "running"
  /\ Len(pipe.arrivals) < MaxArrivals
  /\ LET p == [pipe EXCEPT !.arrivals = Append(@, [fd |-> "stderr", text |-> err])]
     IN pipe' = IF LooksLikeError(err) THEN Emit(p, "error", "stderr", err) ELSE p
  /\ UNCHANGED allButPipe

\* child.on('close')
PipeClose(code) ==
  /\ pipe.proc = "running"
  /\ LET p == [pipe EXCEPT !.proc = "closed", !.exitCode = code]
         ok == IF pipe.kind = "query" THEN StandardSuccess(code, pipe.output)
               ELSE StreamingSuccess(code, pipe.output)
     IN pipe' = IF ok
                  THEN SettlePipe(Emit(p, "end", "close", pipe.output), "resolved", pipe.output)
                  ELSE SettlePipe(Emit(p, "error", "close", <<"exit">>), "rejected", <<>>)
  /\ UNCHANGED allButPipe

\* child.on('error')
PipeError ==
  /\ pipe.proc = "running"
  /\ ~pipe.errored
  /\ pipe' = SettlePipe(Emit([pipe EXCEPT !.errored = TRUE], "error", "error", <<"spawn">>),
                        "rejected", <<>>)
  /\ UNCHANGED allButPipe

InitPipe ==
  /\ ServiceIdle
  /\ cmd = CmdIdle
  /\ dir = DirIdle
  /\ pipe = PipeIdle
  /\ batch = BatchIdle
  /\ stop = StopIdle
  /\ build = BuildIdle
  /\ timing = TimingIdle

NextPipe ==
  \/ \E kind \in {"query", "stream"} : PipeSpawn(kind)
  \/ \E text \in StdoutTexts : PipeStdout(text)
  \/ \E err \in PipeStderrTexts : PipeStderr(err)
  \/ \E code \in ExitCodes : PipeClose(code)
  \/ PipeError

SpecPipe == InitPipe /\ [][NextPipe]_vars

\* ------------------------------------------- specification: command builder
allButCmd == <<svcVars, bench, dir, pipe, batch, stop, build, timing>>

InitCmd ==
  /\ ServiceIdle
  /\ cmd \in CmdInputs
  /\ dir = DirIdle
  /\ pipe = PipeIdle
  /\ batch = BatchIdle
  /\ stop = StopIdle
  /\ build = BuildIdle
  /\ timing = TimingIdle

\* llama:query-model: queryModel(prompt, options) with the caller's options
QueryModelArgs ==
  /\ cmd.via = "none"
  /\ cmd' = BuildCommand("query", OptionsOf(cmd.options))
  /\ UNCHANGED allButCmd

\* llama:stream-query: queryModel(prompt, streamingOptions)
StreamQueryArgs ==
  /\ cmd.via = "none"
  /\ cmd' = BuildCommand("stream", StreamingOptions(OptionsOf(cmd.options)))
  /\ UNCHANGED allButCmd

NextCmd == QueryModelArgs \/ StreamQueryArgs

SpecCmd == InitCmd /\ [][NextCmd]_vars

\* ------------------------------------------ specification: models directory
allButDir == <<svcVars, bench, cmd, pipe, batch, stop, build, timing>>

InitDir ==
  /\ ServiceIdle
  /\ cmd = CmdIdle
  /\ dir \in DirInputs
  /\ pipe = PipeIdle
  /\ batch = BatchIdle
  /\ stop = StopIdle
  /\ build = BuildIdle
  /\ timing = TimingIdle

\* llama:get-models
GetModelsIpc ==
  /\ dir.op = "none"
  /\ dir' = [dir EXCEPT !.op = "getAvailableModels",
                        !.listed = GetAvailableModels(dir.status, dir.entries)]
  /\ UNCHANGED allButDir

\* llama:check-models
CheckModelsIpc ==
  /\ dir.op = "none"
  /\ dir' = [dir EXCEPT !.op = "checkModels",
                        !.listed = GetAvailableModels(dir.status, dir.entries),
                        !.infos = CheckModels(dir.status, dir.entries)]
  /\ UNCHANGED allButDir

\* a loadModel that clears the slot when it fails
ActiveAfterLoad_Cleared(ok, resolved, current) == IF ok THEN resolved ELSE NoModel

\* this.activeModel after loadModel: assigned on the success path only
ActiveAfterLoad(ok, resolved, current) == IF ok THEN resolved ELSE current

\* llama:load-model with a bare name or a full path
LoadModelIpc(modelPath, libExists) ==
  /\ dir.op \in {"none", "loadModel"}
  /\ dir.loads < MaxLoads
  /\ LET ok == LoadModelResult(dir.status, dir.entries, modelPath, libExists)
     IN /\ activeModel' =
             ActiveAfterLoad(ok, ResolveModel(dir.status, dir.entries, modelPath),
                             activeModel)
        /\ dir' = [dir EXCEPT !.op = "loadModel",
                              !.loads = @ + 1,
                              !.arg = modelPath,
                              !.lib = libExists,
                              !.before = activeModel,
                              !.loaded = IF ok THEN "true" ELSE "false",
                              !.used = ""]
  /\ UNCHANGED <<clock, activeProcesses, listeners, calls, nCalls, nStops,
                 bench, cmd, pipe, batch, stop, build, timing>>

\* queryModel after a loadModel: const modelPath = this.activeModel
QueryLoadedModel ==
  /\ dir.op = "loadModel"
  /\ dir.used = ""
  /\ activeModel # NoModel
  /\ dir' = [dir EXCEPT !.used = activeModel]
  /\ UNCHANGED allButDir

NextDir ==
  \/ GetModelsIpc
  \/ CheckModelsIpc
  \/ \E modelPath \in BareNames \cup FullPaths, libExists \in BOOLEAN :
       LoadModelIpc(modelPath, libExists)
  \/ QueryLoadedModel

SpecDir == InitDir /\ [][NextDir]_vars

\* ------------------------------------------------- benchmarkAllModels
allButBatch == <<svcVars, bench, cmd, dir, pipe, stop, build, timing>>

\* benchmarkAllModels up to its loop: a missing library or binary, or an
\* empty listing, returns one error and benchmarks nothing
BenchmarkAllModels(deleteAfter, libExists, binExists, listed) ==
  /\ batch.phase = "idle"
  /\ batch' =
       IF libExists /\ binExists /\ listed > 0
       THEN [batch EXCEPT !.phase = "running", !.deleteAfter = deleteAfter,
                          !.listed = listed, !.model = 1]
       ELSE [batch EXCEPT !.phase = "refused", !.deleteAfter = deleteAfter,
                          !.results = <<[error |-> TRUE]>>]
  /\ UNCHANGED allButBatch

\* the totals without the setup time
Accumulate_NoSetup(b, result) ==
  [b EXCEPT !.totalTokens = @ + result.tokenCount,
            !.totalTime = @ + result.timeSeconds,
            !.totalGenerationTime = @ + result.generationTimeSeconds]

\* the totals of benchmarkModel after a prompt that resolved
Accumulate(b, result) ==
  [b EXCEPT !.totalTokens = @ + result.tokenCount,
            !.totalTime = @ + result.timeSeconds,
            !.totalSetupTime = @ + result.setupTimeSeconds,
            !.totalGenerationTime = @ + result.generationTimeSeconds]

\* a prompt of the current model resolved
PromptResolved(texted, start, first, last, end) ==
  /\ batch.phase = "running"
  /\ Len(batch.prompts) < MaxPrompts
  /\ start <= first /\ first <= last /\ last <= end
  /\ ~texted => (first = start /\ last = start)
  /\ LET result == PromptTiming(texted, start, first, last, end) IN
       batch' = [Accumulate(batch, result) EXCEPT
         !.prompts = Append(@, PromptResult(Len(batch.prompts) + 1, result))]
  /\ UNCHANGED allButBatch

\* a prompt of the current model rejected
PromptRejected ==
  /\ batch.phase = "running"
  /\ Len(batch.prompts) < MaxPrompts
  /\ batch' = [batch EXCEPT !.prompts = Append(@, PromptError(Len(batch.prompts) + 1))]
  /\ UNCHANGED allButBatch

\* the loop moves to the next model, or ends
NextModel(b) ==
  IF b.model < b.listed
  THEN [b EXCEPT !.model = @ + 1, !.prompts = <<>>, !.totalTokens = 0,
                 !.totalTime = 0, !.totalSetupTime = 0, !.totalGenerationTime = 0]
  ELSE [b EXCEPT !.phase = "done"]

\* the rest of one turn of the loop, after the last prompt: benchmarkModel
\* returns (or statSync throws), the result is stored, the file is deleted
\* when asked, and the catch block does the same for whatever was thrown
FinishModel(statOk, exists, unlinkOk, unlinkAgainOk) ==
  /\ batch.phase = "running"
  /\ Len(batch.prompts) = MaxPrompts
  /\ LET stored == IF statOk
                   THEN [batch EXCEPT !.results = Append(@, BenchmarkSuccess(batch))]
                   ELSE batch
         thrown == ~statOk \/ (batch.deleteAfter /\ exists /\ ~unlinkOk)
         caught == [stored EXCEPT !.results = Append(@, BenchmarkError(batch))]
     IN  batch' =
           IF ~thrown THEN NextModel(stored)
           ELSE IF batch.deleteAfter /\ exists /\ ~unlinkAgainOk
                THEN [caught EXCEPT !.phase = "aborted"]
                ELSE NextModel(caught)
  /\ UNCHANGED allButBatch

InitBatch ==
  /\ ServiceIdle
  /\ cmd = CmdIdle
  /\ dir = DirIdle
  /\ pipe = PipeIdle
  /\ batch = BatchIdle
  /\ stop = StopIdle
  /\ build = BuildIdle
  /\ timing = TimingIdle

NextBatch ==
  \/ \E deleteAfter \in BOOLEAN, libExists \in BOOLEAN, binExists \in BOOLEAN,
        listed \in 0..MaxModels :
       BenchmarkAllModels(deleteAfter, libExists, binExists, listed)
  \/ \E texted \in BOOLEAN, start \in Readings, first \in Readings,
        last \in Readings, end \in Readings :
       PromptResolved(texted, start, first, last, end)
  \/ PromptRejected
  \/ \E statOk \in BOOLEAN, exists \in BOOLEAN, unlinkOk \in BOOLEAN,
        unlinkAgainOk \in BOOLEAN :
       FinishModel(statOk, exists, unlinkOk, unlinkAgainOk)

SpecBatch == InitBatch /\ [][NextBatch]_vars

\* -------------------------------------------------- stop-processes alone
allButStop == <<svcVars, bench, cmd, dir, pipe, batch, build, timing>>

\* standardQuery / streamingQuery registering the child they spawned
StopSpawn(isWrapped) ==
  /\ stop.spawned < MaxHandles
  /\ LET c == stop.spawned + 1 IN
       stop' = [stop EXCEPT !.spawned = c,
                            !.reg = Append(@, c),
                            !.wrapped = IF isWrapped THEN @ \cup {c} ELSE @]
  /\ UNCHANGED allButStop

\* ipcMain.handle('llama:stop-processes'): {success: true} unless
\* stopAllProcesses throws
StopProcessesIpc(throwing) ==
  /\ stop.n < MaxStopCalls
  /\ throwing \subseteq {stop.reg[i] : i \in 1..Len(stop.reg)}
  /\ LET done == StopLoop(stop.reg, throwing) IN
       stop' = [stop EXCEPT !.n = @ + 1,
                            !.reg = done.reg,
                            !.signalled = done.signalled,
                            !.threw = done.threw,
                            !.result = IF done.thrown THEN "failure" ELSE "success"]
  /\ UNCHANGED allButStop

InitStop ==
  /\ ServiceIdle
  /\ cmd = CmdIdle
  /\ dir = DirIdle
  /\ pipe = PipeIdle
  /\ batch = BatchIdle
  /\ stop = StopIdle
  /\ build = BuildIdle
  /\ timing = TimingIdle

NextStop ==
  \/ \E isWrapped \in BOOLEAN : StopSpawn(isWrapped)
  \/ \E throwing \in SUBSET HandleIds : StopProcessesIpc(throwing)

SpecStop == InitStop /\ [][NextStop]_vars

\* ------------------------------------------------ runOnePrompt timestamps
allButTiming == <<svcVars, bench, cmd, dir, pipe, batch, stop, build>>

\* milliseconds that pass between two events
Passing == {0, 1000}

\* runOnePrompt reads processStartTime
TimingStart(d) ==
  /\ timing.phase = "idle"
  /\ timing' = [timing EXCEPT !.phase = "running",
                              !.now = @ + d,
                              !.processStartTime = timing.now + d]
  /\ UNCHANGED allButTiming

\* child.stdout.on('data')
TimingStdout(text, d) ==
  /\ timing.phase = "running"
  /\ Len(timing.arrivals) < MaxChunks
  /\ timing.now + d <= 1000 * (MaxTicks + 1)
  /\ LET now == timing.now + d
         starts == ~timing.tokenOutputStarted /\ HasToken(text)
     IN timing' = [timing EXCEPT
          !.now = now,
          !.tokenOutputStarted = @ \/ starts,
          !.firstTokenTime = IF starts THEN now ELSE @,
          !.lastTokenTime = IF HasToken(text) THEN now ELSE @,
          !.arrivals = Append(@, [fd |-> "stdout", text |-> text, at |-> now])]
  /\ UNCHANGED allButTiming

\* child.stderr.on('data')
TimingStderr(err, d) ==
  /\ timing.phase = "running"
  /\ Len(timing.arrivals) < MaxChunks
  /\ timing.now + d <= 1000 * (MaxTicks + 1)
  /\ timing' = [timing EXCEPT
       !.now = @ + d,
       !.arrivals = Append(@, [fd |-> "stderr", text |-> err, at |-> timing.now + d])]
  /\ UNCHANGED allButTiming

\* child.on('close'): the timing metrics
TimingClose(d) ==
  /\ timing.phase = "running"
  /\ timing.now + d <= 1000 * (MaxTicks + 1)
  /\ LET processEndTime == timing.now + d
         totalTimeSeconds == (processEndTime - timing.processStartTime) \div 1000
     IN timing' = [timing EXCEPT
          !.phase = "closed",
          !.now = processEndTime,
          !.timeSeconds = totalTimeSeconds,
          !.setupTimeSeconds =
             IF timing.firstTokenTime # NullTime
             THEN (timing.firstTokenTime - timing.processStartTime) \div 1000
             ELSE totalTimeSeconds,
          !.generationTimeSeconds =
             IF timing.firstTokenTime # NullTime /\ timing.lastTokenTime # NullTime
             THEN (timing.lastTokenTime - timing.firstTokenTime) \div 1000
             ELSE 0]
  /\ UNCHANGED allButTiming

InitTiming ==
  /\ ServiceIdle
  /\ cmd = CmdIdle
  /\ dir = DirIdle
  /\ pipe = PipeIdle
  /\ batch = BatchIdle
  /\ stop = StopIdle
  /\ build = BuildIdle
  /\ timing = TimingIdle

NextTiming ==
  \/ \E d \in Passing : TimingStart(d)
  \/ \E text \in TimedTexts, d \in Passing : TimingStdout(text, d)
  \/ \E err \in StderrTexts, d \in Passing : TimingStderr(err, d)
  \/ \E d \in Passing : TimingClose(d)

SpecTiming == InitTiming /\ [][NextTiming]_vars

\* ------------------------------------- ensureLibraryIsReady / buildLibrary
allButBuild == <<svcVars, bench, cmd, dir, pipe, batch, stop, timing>>

\* ensureLibraryIsReady up to its first await: the library exists (true), a
\* build is in progress (wait), or buildLibrary is entered; a build whose
\* first synchronous step throws (syncOk false) is over before any await and
\* the call returns false after the download stub
EnsureLibraryIsReady(c, syncOk) ==
  /\ build.pc[c] = "idle"
  /\ build.calls < MaxEnsureCalls
  /\ build' =
       LET b == [build EXCEPT !.calls = @ + 1, !.waited[c] = FALSE] IN
       IF build.lib
         THEN [b EXCEPT !.pc[c] = "done", !.result[c] = "true"]
       ELSE IF build.isBuildingLibrary
         THEN [b EXCEPT !.pc[c] = "waiting", !.waited[c] = TRUE]
       ELSE IF MayBuild(build) /\ syncOk
         THEN [b EXCEPT !.pc[c] = "building", !.isBuildingLibrary = TRUE, !.stage = 1]
       ELSE [b EXCEPT !.pc[c] = "done", !.result[c] = "false",
                      !.isBuildingLibrary = FlagAfterBuild(FALSE)]
  /\ UNCHANGED allButBuild

\* the awaited child of a build closes: with code 0 the build goes on to the
\* next child, and after the last one the library is copied; otherwise the
\* catch logs, the finally resets the flag and the caller returns
BuildChildClose(c, ok, found) ==
  /\ build.pc[c] = "building"
  /\ build' =
       IF ok /\ build.stage < BuildStages
         THEN [build EXCEPT !.stage = @ + 1]
         ELSE LET success == ok /\ found IN
              [build EXCEPT !.stage = 0,
                            !.isBuildingLibrary = FlagAfterBuild(success),
                            !.lib = success,
                            !.pc[c] = "done",
                            !.result[c] = IF success THEN "true" ELSE "false"]
  /\ UNCHANGED allButBuild

\* the 1000 ms timer of the wait loop fires while no build is in progress:
\* the loop ends and the call returns whether the library is there
WaitOver(c) ==
  /\ build.pc[c] = "waiting"
  /\ ~build.isBuildingLibrary
  /\ build' = [build EXCEPT !.pc[c] = "done",
                            !.result[c] = IF build.lib THEN "true" ELSE "false"]
  /\ UNCHANGED allButBuild

\* the caller is free to call again
EnsureReturned(c) ==
  /\ build.pc[c] = "done"
  /\ build.calls < MaxEnsureCalls
  /\ build' = [build EXCEPT !.pc[c] = "idle", !.result[c] = "none"]
  /\ UNCHANGED allButBuild

InitBuild ==
  /\ ServiceIdle
  /\ cmd = CmdIdle
  /\ dir = DirIdle
  /\ pipe = PipeIdle
  /\ batch = BatchIdle
  /\ stop = StopIdle
  /\ build = BuildIdle
  /\ timing = TimingIdle

NextBuild ==
  \/ \E c \in Callers, syncOk \in BOOLEAN : EnsureLibraryIsReady(c, syncOk)
  \/ \E c \in Callers, ok \in BOOLEAN, found \in BOOLEAN : BuildChildClose(c, ok, found)
  \/ \E c \in Callers : WaitOver(c)
  \/ \E c \in Callers : EnsureReturned(c)

\* the child processes of a build exit, and the timer of a wait loop fires
SpecBuild ==
  /\ InitBuild
  /\ [][NextBuild]_vars
  /\ \A c \in Callers :
       /\ WF_vars(\E ok \in BOOLEAN, found \in BOOLEAN : BuildChildClose(c, ok, found))
       /\ WF_vars(WaitOver(c))

\* ------------------------------------------------------- specifications
Next ==
  \/ \E m \in ModelPaths, libExists \in BOOLEAN, found \in BOOLEAN :
       LoadModel(m, libExists, found)
  \/ \E streaming \in BOOLEAN, libExists \in BOOLEAN, probeOk \in BOOLEAN, d \in 0..1 :
       QueryModelIpc(streaming, libExists, probeOk, d)
  \/ \E optsGiven \in BOOLEAN, libExists \in BOOLEAN, probeOk \in BOOLEAN,
        e \in 0..1, d \in 0..1 :
       StreamQuery(optsGiven, libExists, probeOk, e, d)
  \/ \E c \in CallIds, x \in Chunks : Stdout(c, x)
  \/ \E c \in CallIds, err \in StderrTexts : Stderr(c, err)
  \/ \E c \in CallIds, code \in ExitCodes : Close(c, code)
  \/ \E c \in CallIds : ProcError(c)
  \/ StopProcesses

Spec == Init /\ [][Next]_vars

\* ================================================================ claims
StreamCalls == {c \in CallIds : calls[c].via = "stream"}

\* the events a stream handler invocation delivered under its query identifier
QueryEvents(c) == SelectSeq(calls[c].replies, LAMBDA e : e.queryId = calls[c].queryId)

IsTerminalEvent(e) == e.ch \in {"end", "error"}

\* start, then data events, then at most one terminal event, nothing after it
WellOrdered(evs) ==
  /\ Len(evs) > 0 => evs[1].ch = "start"
  /\ \A i \in 2..Len(evs) : evs[i].ch # "start"
  /\ \A i \in 1..(Len(evs) - 1) : ~IsTerminalEvent(evs[i])

\* C1: the events delivered for one streaming query are one start, then data
\* events, then exactly one terminal event (end or error, never both, never
\* twice), and a query that is over has delivered its terminal event.
C1_StreamEventOrder ==
  \A c \in StreamCalls :
    /\ WellOrdered(QueryEvents(c))
    /\ (calls[c].promise \in {"resolved", "rejected"} /\ QueryEvents(c) # <<>>)
         => IsTerminalEvent(QueryEvents(c)[Len(QueryEvents(c))])

\* a spawned process that has had a terminal event (close or 'error')
Terminated(c) == calls[c].proc = "closed" \/ calls[c].errored

\* C2: once a query has reached a terminal state, and the same other queries
\* are in flight as when it was started, the registry has the size it had
\* before the query was started.
C2_RegistrySizeRestored ==
  \A c \in CallIds :
    (Terminated(c) /\ InFlight(calls) = calls[c].othersBefore)
      => Size(activeProcesses) = calls[c].sizeBefore

\* C3: stopAllProcesses calls kill('SIGINT') on the child of every registered
\* handle, raw or wrapped, leaves the registry empty, and waits for no exit:
\* no process changes state in that step.
C3_StopAllSignalsAndClears ==
  [][nStops' # nStops =>
       /\ activeProcesses' = EmptyMap
       /\ \A k \in DOMAIN activeProcesses :
            calls'[activeProcesses[k].child].sigint = calls[activeProcesses[k].child].sigint + 1
       /\ \A c \in CallIds : calls'[c].proc = calls[c].proc]_vars

\* two streaming processes, registered under different ids, were both
\* signalled by one stop-all while still running
C3_Witness ==
  /\ nStops = 1
  /\ activeProcesses = EmptyMap
  /\ \E c, d \in CallIds :
       /\ c # d
       /\ calls[c].kind = "stream" /\ calls[d].kind = "stream"
       /\ calls[c].proc = "running" /\ calls[d].proc = "running"
       /\ calls[c].sigint = 1 /\ calls[d].sigint = 1

\* C4: a process that closes with exit code 0 (or null on the streaming path)
\* with no stdout captured never yields a success: no resolved promise and no
\* end event; the same for runOnePrompt.
C4_EmptyOutputIsFailure ==
  /\ \A c \in CallIds :
       ( /\ calls[c].proc = "closed"
         /\ calls[c].out = <<>>
         /\ \/ calls[c].exitCode = Zero
            \/ (calls[c].kind = "stream" /\ calls[c].exitCode = Null) )
         => /\ calls[c].promise # "resolved"
            /\ \A h \in CallIds : \A i \in 1..Len(calls[h].replies) :
                 ~(calls[h].replies[i].ch = "end" /\ calls[h].replies[i].src = c)
  /\ \A r \in RunIds :
       (bench.runs[r].proc = "closed" /\ bench.runs[r].out = <<>>
          /\ bench.runs[r].exitCode = Zero)
         => bench.runs[r].promise # "resolved"

\* C5: a process that closes with a non-zero exit code ends in failure, never
\* in success, whatever output was captured; the same for runOnePrompt.
C5_NonZeroExitIsFailure ==
  /\ \A c \in CallIds :
       (calls[c].proc = "closed" /\ calls[c].exitCode = NonZero)
         => (calls[c].promise = "rejected" /\ calls[c].result # "success")
  /\ \A r \in RunIds :
       (bench.runs[r].proc = "closed" /\ bench.runs[r].exitCode = NonZero)
         => bench.runs[r].promise = "rejected"

\* a streaming query that has started and has not delivered a terminal event
StreamOpen(c) ==
  /\ calls[c].via = "stream"
  /\ calls[c].replies # <<>>
  /\ ~IsTerminalEvent(calls[c].replies[Len(calls[c].replies)])

\* C6: every event relayed to the UI carries the identifier of its query, and
\* two streaming queries in flight at the same time have different identifiers.
C6_EventsCarryUniqueQueryId ==
  /\ \A c \in StreamCalls : \A i \in 1..Len(calls[c].replies) :
       /\ calls[c].replies[i].queryId # NoId
       /\ calls[c].replies[i].queryId = calls[c].queryId
  /\ \A c, d \in CallIds :
       (c # d /\ StreamOpen(c) /\ StreamOpen(d)) => calls[c].queryId # calls[d].queryId

\* C7: with two stream-query invocations in flight, every event delivered under
\* one query's identifier was produced by that query's own process, never by
\* the other's.
C7_NoCrossTalk ==
  \A c \in StreamCalls : \A i \in 1..Len(calls[c].replies) :
    calls[c].replies[i].src \in StreamCalls => calls[c].replies[i].src = c

\* queryModel is entered for call c in this step
Enters(c) == calls[c].via = "none" /\ calls'[c].via # "none" /\ calls'[c].outcome # "HandlerThrew"

\* C8: queryModel entered while no model is active fails with the
\* no-model-loaded error before the library check, the help probe and the
\* spawn: no process is created and the registry is unchanged.
C8_NoModelFailsFirst ==
  [][\A c \in CallIds :
       (Enters(c) /\ activeModel = NoModel)
         => /\ calls'[c].outcome = "NoModel"
            /\ calls'[c].promise = "rejected"
            /\ calls'[c].steps = <<"activeModel">>
            /\ calls'[c].proc = "none"
            /\ activeProcesses' = activeProcesses]_vars

\* both handlers have failed with the no-model error
C8_Witness ==
  \E c, d \in CallIds :
    /\ calls[c].via = "query" /\ calls[c].outcome = "NoModel" /\ calls[c].result = "failure"
    /\ calls[d].via = "stream" /\ calls[d].outcome = "NoModel"

\* C9: queryModel entered with an active model and the shared library missing
\* fails with the library error and attempts nothing: no help probe, no
\* process, registry unchanged.
C9_MissingLibraryFailsBeforeProbe ==
  [][\A c \in CallIds :
       (Enters(c) /\ activeModel # NoModel /\ ~calls'[c].libAtCall)
         => /\ calls'[c].outcome = "NoLibrary"
            /\ calls'[c].promise = "rejected"
            /\ ~Did(calls'[c].steps, "execSync")
            /\ ~Did(calls'[c].steps, "spawn")
            /\ calls'[c].proc = "none"
            /\ activeProcesses' = activeProcesses]_vars

\* a query with a model loaded failed on the missing library while another
\* query's process was registered
C9_Witness ==
  \E c \in CallIds :
    /\ calls[c].outcome = "NoLibrary"
    /\ calls[c].modelAtCall # NoModel
    /\ calls[c].sizeBefore = 1
    /\ Size(activeProcesses) = 1

\* C10: a failed help probe does not abort the query: the inference process is
\* still spawned, in queryModel and in runOnePrompt.
C10_ProbeFailureStillSpawns ==
  /\ \A c \in CallIds : calls[c].outcome = "ProbeFailed" => calls[c].proc # "none"
  /\ \A r \in RunIds : bench.runs[r].probed = "failed" => bench.runs[r].proc # "none"

\* the flags every vector starts with, at the odd positions, in this order
RequiredFlags == <<"-m", "-p", "--temp", "--seed", "--ctx-size", "--n-predict", "--threads">>

\* where a token occurs in a vector
Positions(args, tok) == {i \in 1..Len(args) : args[i] = tok}

\* the rank of an optional flag in the fixed order; the two spellings of the
\* conversation flag share the last place
Rank(flag) ==
  CASE flag = "--top-p" -> 1
    [] flag = "--no-display-prompt" -> 2
    [] flag = "--no-interactive" -> 3
    [] OTHER -> 4

\* C11: a built argument vector starts with the seven required flags and their
\* values in fixed order; an optional flag's token is in it only if the help
\* output documents that token; with no optional flag documented the vector is
\* exactly the required part; optional flags come after the required part, in
\* fixed order.
C11_ArgsFollowCapabilities ==
  (cmd.via # "none" /\ ~cmd.threw) =>
    /\ Len(cmd.args) >= 2 * Len(RequiredFlags)
    /\ \A k \in 1..Len(RequiredFlags) : cmd.args[2 * k - 1] = RequiredFlags[k]
    /\ cmd.args[2] = "models/a.gguf"
    /\ cmd.args[4] = "hi"
    /\ \A k \in 3..Len(RequiredFlags) : cmd.args[2 * k] \notin FlagSet
    /\ \A flag \in FlagSet : Positions(cmd.args, flag) # {} => flag \in cmd.lines
    /\ cmd.lines = {} => Len(cmd.args) = 2 * Len(RequiredFlags)
    /\ \A f, g \in FlagSet : \A i \in Positions(cmd.args, f), j \in Positions(cmd.args, g) :
         /\ i > 2 * Len(RequiredFlags)
         /\ Rank(f) < Rank(g) => i < j
         /\ (Rank(f) = Rank(g) /\ (f # g \/ i # j)) => FALSE

\* a vector was built for a binary that documents --top-p and -no-cnv only:
\* both tokens follow the required part, the other flags are left out
C11_Witness ==
  /\ cmd.via = "query"
  /\ ~cmd.threw
  /\ cmd.lines = {"--top-p", "-no-cnv"}
  /\ Len(cmd.args) = 17
  /\ cmd.args[15] = "--top-p"
  /\ cmd.args[17] = "-no-cnv"

\* C12: for every options record passed to queryModel, every field of the
\* merged options holds a value when the argument vector is built.
C12_MergedOptionsPopulated ==
  cmd.via # "none" => \A f \in Fields : HoldsValue(cmd.merged[f])

\* C13: every spawned child process, on the service paths as on the benchmark
\* paths, has had a stuck-process watchdog armed by the handler that spawned
\* it.
C13_WatchdogArmedAtSpawn ==
  /\ \A c \in CallIds : calls[c].proc # "none" => calls[c].watchdog # "none"
  /\ \A r \in RunIds : bench.runs[r].proc # "none" => bench.runs[r].watchdog # "none"

C15_OutputDisarmsWatchdog ==
  [][\A r \in RunIds :
       (bench.runs[r].out # <<>> \/ bench.runs[r].nErr > 0)
         => /\ bench'.runs[r].sigint = bench.runs[r].sigint
            /\ bench'.runs[r].quitWritten = bench.runs[r].quitWritten]_vars

\* C16: every child process, on the service paths and on the benchmark paths,
\* has had its standard input ended by the handler that spawned it.
C16_StdinEndedAtSpawn ==
  /\ \A c \in CallIds : calls[c].proc # "none" => calls[c].stdinEnded
  /\ \A r \in RunIds : bench.runs[r].proc # "none" => bench.runs[r].stdinEnded

\* the stdout texts of an arrival log, concatenated in arrival order
RECURSIVE ConcatStdout(_)
ConcatStdout(arr) ==
  IF arr = <<>> THEN <<>>
  ELSE (IF Head(arr).fd = "stdout" THEN Head(arr).text ELSE <<>>) \o ConcatStdout(Tail(arr))

\* the stderr texts that contain error, exception or fatal in any spelling
ErrorLikeTexts == {ErrorText, FatalText, ExceptionText}

\* the texts of the stderr chunks of an arrival log that name a failure
RECURSIVE FailureTexts(_)
FailureTexts(arr) ==
  IF arr = <<>> THEN <<>>
  ELSE (IF Head(arr).fd = "stderr" /\ Head(arr).text \in ErrorLikeTexts
          THEN <<Head(arr).text>> ELSE <<>>) \o FailureTexts(Tail(arr))

\* the payloads of the events streamingQuery emitted from its stderr handler
RECURSIVE StderrEvents(_)
StderrEvents(evs) ==
  IF evs = <<>> THEN <<>>
  ELSE (IF Head(evs).from = "stderr" THEN <<Head(evs).payload>> ELSE <<>>)
         \o StderrEvents(Tail(evs))

\* C17: in streaming mode the stderr handler emits an error event for exactly
\* the stderr chunks that contain error, exception or fatal in any spelling,
\* no event of another kind, and the accumulated response holds stdout text
\* only.
C17_StderrEscalatedIffErrorLike ==
  pipe.kind = "stream" =>
    /\ StderrEvents(pipe.emitted) = FailureTexts(pipe.arrivals)
    /\ \A i \in 1..Len(pipe.emitted) :
         pipe.emitted[i].from = "stderr" => pipe.emitted[i].ev = "error"
    /\ pipe.output = ConcatStdout(pipe.arrivals)

\* a streaming child wrote ERROR, then log, then hi: one error event for the
\* first, none for the second, the response is hi
C17_Witness ==
  /\ pipe.kind = "stream"
  /\ pipe.arrivals = << [fd |-> "stderr", text |-> ErrorText],
                        [fd |-> "stderr", text |-> NoiseText],
                        [fd |-> "stdout", text |-> <<"h", "i">>] >>
  /\ Len(pipe.emitted) = 2
  /\ pipe.emitted[1].ev = "error"
  /\ pipe.output = <<"h", "i">>

\* C18: the promise of standardQuery settles only at a terminal event of the
\* child, and the value it resolves with is the stdout chunks concatenated in
\* arrival order, without any stderr text.
C18_AggregateIsStdoutInOrder ==
  pipe.kind = "query" =>
    /\ pipe.promise \in {"resolved", "rejected"} => (pipe.proc = "closed" \/ pipe.errored)
    /\ pipe.promise = "resolved" => pipe.value = ConcatStdout(pipe.arrivals)
    /\ pipe.emitted = <<>>

\* hi, then a stderr text, then ! arrived, and the promise resolved with hi!
C18_Witness ==
  /\ pipe.kind = "query"
  /\ pipe.promise = "resolved"
  /\ pipe.arrivals = << [fd |-> "stdout", text |-> <<"h", "i">>],
                        [fd |-> "stderr", text |-> ErrorText],
                        [fd |-> "stdout", text |-> <<"!">>] >>
  /\ pipe.value = <<"h", "i", "!">>

\* the names that end in .gguf in any spelling
GgufNames == {"a.gguf", "b.GGUF"}

\* the entries of the directory a listing is to return
Wanted == SelectSeq(dir.entries, LAMBDA e : e.name \in GgufNames)

\* C19: the model listing is, in directory order, the absolute paths of the
\* entries whose names end in .gguf in any spelling, and the empty sequence
\* when the directory is absent or cannot be read.
C19_ListingIsGgufEntriesInOrder ==
  dir.op = "getAvailableModels" =>
    IF dir.status = "ok"
      THEN /\ Len(dir.listed) = Len(Wanted)
           /\ \A i \in 1..Len(Wanted) :
                dir.listed[i] = [dir |-> ModelsDir, base |-> Wanted[i].name]
      ELSE dir.listed = <<>>

\* b.GGUF, c.txt and a.gguf were listed from a readable directory: the two
\* model files came back in that order
C19_Witness ==
  /\ dir.op = "getAvailableModels"
  /\ dir.status = "ok"
  /\ Len(dir.entries) = 3
  /\ dir.entries[1].name = "b.GGUF" /\ dir.entries[2].name = "c.txt"
  /\ dir.entries[3].name = "a.gguf"
  /\ Len(dir.listed) = 2
  /\ dir.listed[1].base = "b.GGUF" /\ dir.listed[2].base = "a.gguf"

\* C20: checkModels returns one ModelInfo per listed model, in listing order;
\* a file without the GGUF magic, or one that cannot be read, is reported with
\* isValid false and modelType Unknown, and no file's failure removes the
\* entries of the others.
C20_OneInfoPerListedModel ==
  dir.op = "checkModels" =>
    /\ Len(dir.infos) = Len(dir.listed)
    /\ \A i \in 1..Len(dir.infos) :
         /\ dir.infos[i].path = dir.listed[i]
         /\ \A k \in 1..Len(dir.entries) :
              (dir.entries[k].name = dir.listed[i].base /\ dir.entries[k].kind # "gguf")
                => (~dir.infos[i].isValid /\ dir.infos[i].modelType = "Unknown")

\* which file names contain which bare name
Contains == { <<"a.gguf", "gguf">>, <<"a.gguf", ".">>, <<"b.GGUF", "b">>, <<"b.GGUF", ".">> }

\* the positions of the directory entries a bare name selects from
Candidates(name) ==
  {i \in 1..Len(dir.entries) :
     dir.entries[i].name \in GgufNames /\ <<dir.entries[i].name, name>> \in Contains}

\* the first of them
FirstCandidate(name) ==
  CHOOSE i \in Candidates(name) : \A j \in Candidates(name) : i <= j

\* loadModel returned false and left the slot as it was
LoadFailed == dir.loaded = "false" /\ activeModel = dir.before

\* loadModel returned true and the slot holds the first candidate's path
LoadedFirst(name) ==
  /\ dir.loaded = "true"
  /\ activeModel = ModelsDir \o "/" \o dir.entries[FirstCandidate(name)].name

\* what the claim says of a call with bare name: false when nothing listed
\* matches or the first match does not exist, true with the slot set otherwise
ByName(name) ==
  IF dir.status # "ok" \/ Candidates(name) = {} THEN LoadFailed
  ELSE IF dir.entries[FirstCandidate(name)].kind = "gone" THEN LoadFailed
  ELSE LoadedFirst(name)

\* C21 as stated: loadModel given a bare name selects the first listed model
\* whose file name contains it; it returns false if none matches or the
\* resolved path does not exist, and returns true and sets the active model
\* otherwise.
C21_LoadModelFirstMatch ==
  (dir.op = "loadModel" /\ dir.arg \in BareNames) => ByName(dir.arg)

\* C21 amended: the same provided the shared library is found; when it is not,
\* loadModel returns false and leaves the active model as it was.
C21_LoadModelFirstMatchWithLibrary ==
  (dir.op = "loadModel" /\ dir.arg \in BareNames) =>
    IF dir.lib THEN ByName(dir.arg) ELSE LoadFailed

\* with b.GGUF listed before a.gguf, the name "." that both contain loaded
\* b.GGUF, replacing the model loaded before
C21_Witness ==
  /\ dir.op = "loadModel" /\ dir.arg = "." /\ dir.lib
  /\ Len(dir.entries) = 2
  /\ dir.entries[1].name = "b.GGUF" /\ dir.entries[2].name = "a.gguf"
  /\ dir.before = ModelsDir \o "/" \o "a.gguf"
  /\ dir.loaded = "true"
  /\ activeModel = ModelsDir \o "/" \o "b.GGUF"

\* the thread counts to expect for the core counts tried
ExpectedThreads == [n \in CpuCounts |-> CASE n = 1 -> "1" [] n = 2 -> "1" [] n = 8 -> "7"]

\* C25: the value after --threads is max(1, N - 1) for N cores: 1 for one
\* core, never less than 1.
C25_ThreadCount ==
  (cmd.via # "none" /\ ~cmd.threw) =>
    /\ cmd.args[13] = "--threads"
    /\ cmd.args[14] = ExpectedThreads[cmd.cpus]
    /\ cmd.args[14] \notin {"0", "-1"}

\* a vector was built on a machine with one core: one thread
C25_Witness ==
  /\ cmd.via = "stream" /\ ~cmd.threw
  /\ cmd.cpus = 1
  /\ cmd.args[14] = "1"

\* a number that is zero
IsZero(rate) == rate = Num(0)

\* the prompts of the model being benchmarked that resolved
ResolvedPrompts ==
  {i \in 1..Len(batch.prompts) : ~batch.prompts[i].error}

\* the models benchmarked without an error
Successes ==
  {i \in 1..Len(batch.results) :
     batch.phase # "refused" /\ ~batch.results[i].error}

\* C22: each tokens-per-second figure of the benchmark (per prompt over the
\* total time, per prompt over the generation time, and the two averages of a
\* model) is 0 when its denominator is 0: no division by zero is performed.
C22_RatesZeroOnZeroDenominator ==
  /\ \A i \in ResolvedPrompts :
       LET pr == batch.prompts[i] IN
         /\ pr.timeSeconds = 0 => IsZero(pr.tokensPerSecond)
         /\ pr.generationTimeSeconds = 0 => IsZero(pr.generationTokensPerSecond)
  /\ \A i \in Successes :
       LET r == batch.results[i] IN
         /\ r.totalTime = 0 => IsZero(r.averageTokensPerSec)
         /\ r.totalGenerationTime = 0 => IsZero(r.averageGenerationTokensPerSec)

\* C23: a failure on one model of the batch is recorded as that model's
\* error and the loop goes on; when the batch is over the results hold one
\* entry per listed model, in listing order.
C23_OneEntryPerListedModel ==
  /\ batch.phase # "aborted"
  /\ batch.phase = "done" =>
       /\ Len(batch.results) = batch.listed
       /\ \A i \in 1..Len(batch.results) : batch.results[i].model = i

\* queryModel of call c failed: no model, no library, probe failure, a
\* process error, or an exit its close handler rejects
Failed(c) ==
  \/ calls[c].outcome \in {"NoModel", "NoLibrary", "ProbeFailed", "HandlerThrew"}
  \/ calls[c].errored
  \/ /\ calls[c].proc = "closed"
     /\ \/ calls[c].exitCode = NonZero
        \/ calls[c].exitCode = Null /\ calls[c].kind = "query"

\* invocation c of the stream handler replied on llama:stream-error
ErrorReplied(c) ==
  \E i \in 1..Len(calls[c].replies) :
    calls[c].replies[i].ch = "error" /\ calls[c].replies[i].src = c

\* C24: every failure of an aggregate query is caught by the
\* llama:query-model handler and returned as {success: false, error}; every
\* failure of a streaming query is delivered as a stream-error event.
C24_FailuresReported ==
  \A c \in CallIds :
    /\ (calls[c].via = "query" /\ Failed(c)) => calls[c].result = "failure"
    /\ (calls[c].via = "query" /\ calls[c].promise = "rejected") =>
         calls[c].result = "failure"
    /\ (calls[c].via = "stream" /\ Failed(c)) => ErrorReplied(c)
    /\ (calls[c].via = "stream" /\ calls[c].promise = "rejected") => ErrorReplied(c)

\* an aggregate query failed on a non-zero exit and a streaming query failed
\* before its spawn; both were reported
C24_Witness ==
  \E c, d \in CallIds :
    /\ calls[c].via = "query" /\ calls[c].kind = "query"
    /\ calls[c].proc = "closed" /\ calls[c].exitCode = NonZero
    /\ calls[c].result = "failure"
    /\ calls[d].via = "stream" /\ calls[d].outcome = "NoLibrary"
    /\ ErrorReplied(d)

\* C26: two processes held in activeProcesses at one time have distinct
\* identifiers, and the registry holds one entry per spawned process that has
\* had no terminal event and was not stopped: its size is their number, two
\* queries of one kind started in the same clock tick included.
C26_DistinctProcessIds ==
  /\ \A c, d \in InFlight(calls) :
       c # d => calls[c].processId # calls[d].processId
  /\ Size(activeProcesses) = Cardinality(InFlight(calls))

\* call c has a terminal event (close or process error) in this step
TerminalEvent(c) ==
  \/ calls[c].proc = "running" /\ calls'[c].proc = "closed"
  \/ ~calls[c].errored /\ calls'[c].errored

\* C27: the handle of a process is inserted when it is spawned and removed by
\* the first of close, process error and stopAllProcesses; a later terminal
\* event of that process leaves activeProcesses unchanged, and no terminal
\* event of a process removes the handle of another process.
C27_HandleRemovedOnce ==
  [][\A c \in CallIds :
       /\ (calls[c].proc = "none" /\ calls'[c].proc = "running") =>
            /\ calls'[c].processId \in DOMAIN activeProcesses'
            /\ activeProcesses'[calls'[c].processId].child = c
       /\ TerminalEvent(c) =>
            /\ \A k \in DOMAIN activeProcesses :
                 activeProcesses[k].child # c =>
                   /\ k \in DOMAIN activeProcesses'
                   /\ activeProcesses'[k] = activeProcesses[k]
            /\ (calls[c].errored \/ calls[c].sigint > 0) =>
                 activeProcesses' = activeProcesses]_vars

\* an error event of the process of call c was delivered to some handler
ErrorEventFrom(c) ==
  \E h \in CallIds : \E i \in 1..Len(calls[h].replies) :
    /\ calls[h].replies[i].ch = "error"
    /\ calls[h].replies[i].src = c

\* C28: when an error event has been emitted for a streaming query, its
\* process has reached the failed terminal state: it is no longer running and
\* its handle is no longer in activeProcesses.
C28_ErrorEventMeansFailed ==
  \A c \in CallIds :
    (calls[c].kind = "stream" /\ ErrorEventFrom(c)) =>
      /\ calls[c].proc = "closed" \/ calls[c].errored
      /\ \A k \in DOMAIN activeProcesses : activeProcesses[k].child # c

\* the texts of the stdout chunks of an arrival log, in order
RECURSIVE StdoutChunks(_)
StdoutChunks(arr) ==
  IF arr = <<>> THEN <<>>
  ELSE (IF Head(arr).fd = "stdout" THEN <<Head(arr).text>> ELSE <<>>)
         \o StdoutChunks(Tail(arr))

\* the payloads of the data events of an event log, in order
RECURSIVE DataPayloads(_)
DataPayloads(evs) ==
  IF evs = <<>> THEN <<>>
  ELSE (IF Head(evs).ev = "data" THEN <<Head(evs).payload>> ELSE <<>>)
         \o DataPayloads(Tail(evs))

\* the texts of a sequence, concatenated
RECURSIVE Flatten(_)
Flatten(texts) ==
  IF texts = <<>> THEN <<>> ELSE Head(texts) \o Flatten(Tail(texts))

\* C29: each stdout chunk of a streaming query is emitted as one data event,
\* in arrival order, and the payload of its end event is the payloads of the
\* data events emitted before it, concatenated in emission order.
C29_EndIsConcatenationOfData ==
  pipe.kind = "stream" =>
    /\ DataPayloads(pipe.emitted) = StdoutChunks(pipe.arrivals)
    /\ \A i \in 1..Len(pipe.emitted) :
         pipe.emitted[i].ev = "end" =>
           /\ i = Len(pipe.emitted)
           /\ pipe.emitted[i].payload =
                Flatten(DataPayloads(SubSeq(pipe.emitted, 1, i - 1)))

\* a streaming child wrote hi, a log line and !, and ended: two data events
\* and an end event carrying hi!
C29_Witness ==
  /\ pipe.kind = "stream"
  /\ pipe.proc = "closed"
  /\ pipe.arrivals = << [fd |-> "stdout", text |-> <<"h", "i">>],
                        [fd |-> "stderr", text |-> NoiseText],
                        [fd |-> "stdout", text |-> <<"!">>] >>
  /\ Len(pipe.emitted) = 3
  /\ pipe.emitted[3].ev = "end"
  /\ pipe.emitted[3].payload = <<"h", "i", "!">>

\* the close handler of call c emitted an error event
ExitErrorFrom(c) ==
  \E h \in CallIds : \E i \in 1..Len(calls[h].replies) :
    /\ calls[h].replies[i].ch = "error"
    /\ calls[h].replies[i].src = c
    /\ calls[h].replies[i].payload = <<"exit">>

\* invocation c of the stream handler got the end event of its own process,
\* carrying the accumulated text
EndReplied(c) ==
  \E i \in 1..Len(calls[c].replies) :
    /\ calls[c].replies[i].ch = "end"
    /\ calls[c].replies[i].src = c
    /\ calls[c].replies[i].payload = calls[c].out

\* C30: a close with a null exit code is a success on the streaming path (end
\* is emitted, the promise resolves) and a failure on the standard path (the
\* promise rejects): a standard query whose process stopAllProcesses
\* terminated does not resolve with its partial output.
C30_NullExitCode ==
  \A c \in CallIds :
    (calls[c].proc = "closed" /\ calls[c].exitCode = Null) =>
      /\ calls[c].kind = "query" =>
           /\ calls[c].promise = "rejected"
           /\ calls[c].result = "failure"
      /\ calls[c].kind = "stream" =>
           /\ ~ExitErrorFrom(c)
           /\ ~calls[c].errored => calls[c].promise = "resolved"

\* stopAllProcesses signalled a standard and a streaming query that had each
\* written a chunk; both closed with a null code: the first rejected, the
\* second ended with its text
C30_Witness ==
  \E c, d \in CallIds :
    /\ calls[c].kind = "query" /\ calls[c].sigint = 1
    /\ calls[c].proc = "closed" /\ calls[c].exitCode = Null
    /\ calls[c].out # <<>>
    /\ calls[c].promise = "rejected"
    /\ calls[d].kind = "stream" /\ calls[d].via = "stream" /\ calls[d].sigint = 1
    /\ calls[d].proc = "closed" /\ calls[d].exitCode = Null
    /\ calls[d].out # <<>>
    /\ calls[d].promise = "resolved"
    /\ EndReplied(d)

\* C31: stopAllProcesses is total: when the kill of one registered handle
\* throws, every other registered handle is still signalled, the registry is
\* emptied, and the call does not throw (the handler replies success).
C31_StopAllIsTotal ==
  [][stop'.n # stop.n =>
       /\ stop'.reg = <<>>
       /\ stop'.result = "success"
       /\ stop'.signalled \cup stop'.threw = {stop.reg[i] : i \in 1..Len(stop.reg)}
       /\ stop'.signalled \cap stop'.threw = {}]_vars

\* three handles were registered, the kill of the second threw, the first
\* and the third were signalled and the registry is empty
C31_Witness ==
  /\ stop.n = 1
  /\ stop.spawned = 3
  /\ stop.threw = {2}
  /\ stop.signalled = {1, 3}
  /\ stop.reg = <<>>
  /\ stop.result = "success"

\* how often a step occurs in what queryModel did
Count(steps, step) == Cardinality({i \in 1..Len(steps) : steps[i] = step})

\* the place of the first occurrence of a step that occurs
First(steps, step) == CHOOSE i \in 1..Len(steps) :
  steps[i] = step /\ \A j \in 1..(i - 1) : steps[j] # step

\* queryModel of call c found a model and the library
PassedChecks(c) ==
  /\ Did(calls[c].steps, "ensureLibraryIsReady")
  /\ calls[c].outcome \notin {"NoModel", "NoLibrary"}

\* C32: each queryModel call that passes the model and library checks runs
\* its own capability probe, runs it before the spawn, and then spawns
\* exactly one process, on the streaming path for a call of the stream
\* handler, which sets the streaming option.
C32_ProbeThenOneSpawn ==
  \A c \in CallIds :
    PassedChecks(c) =>
      /\ Count(calls[c].steps, "execSync") = 1
      /\ Count(calls[c].steps, "spawn") = 1
      /\ First(calls[c].steps, "execSync") < First(calls[c].steps, "spawn")
      /\ calls[c].kind \in {"query", "stream"}
      /\ calls[c].via = "stream" => calls[c].kind = "stream"

\* the stdout texts that hold something other than white space
TokenTexts == {<<"h", "i">>, <<" ", "!">>}

\* the places in the arrival log of the stdout chunks that carry a token
TokenArrivals ==
  {i \in 1..Len(timing.arrivals) :
     timing.arrivals[i].fd = "stdout" /\ timing.arrivals[i].text \in TokenTexts}

\* the arrival times, in seconds after the start, of the first and the last
\* chunk that carries a token
FirstTokenAt ==
  (timing.arrivals[CHOOSE i \in TokenArrivals : \A j \in TokenArrivals : i <= j].at
     - timing.processStartTime) \div 1000
LastTokenAt ==
  (timing.arrivals[CHOOSE i \in TokenArrivals : \A j \in TokenArrivals : i >= j].at
     - timing.processStartTime) \div 1000

\* C33: for a run of runOnePrompt the setup time is the time from the start
\* to the first stdout chunk that is not white space, or the whole elapsed
\* time when there is none; the generation time is the time from the first
\* to the last such chunk, or zero; blank chunks and stderr chunks set no
\* timestamp.
C33_SetupAndGenerationTimes ==
  /\ timing.phase = "running" =>
       /\ TokenArrivals = {} =>
            timing.firstTokenTime = NullTime /\ timing.lastTokenTime = NullTime
       /\ TokenArrivals # {} =>
            /\ timing.firstTokenTime = timing.processStartTime + 1000 * FirstTokenAt
            /\ timing.lastTokenTime = timing.processStartTime + 1000 * LastTokenAt
  /\ timing.phase = "closed" =>
       /\ timing.timeSeconds = (timing.now - timing.processStartTime) \div 1000
       /\ timing.setupTimeSeconds =
            IF TokenArrivals = {} THEN timing.timeSeconds ELSE FirstTokenAt
       /\ timing.generationTimeSeconds =
            IF TokenArrivals = {} THEN 0 ELSE LastTokenAt - FirstTokenAt

\* a blank chunk at one second, hi at two, a stderr line at three, then the
\* close: setup took two seconds, generation none, the run three
C33_Witness ==
  /\ timing.phase = "closed"
  /\ Len(timing.arrivals) = 3
  /\ timing.arrivals[1].text = <<" ">> /\ timing.arrivals[1].at = 2000
  /\ timing.arrivals[2].text = <<"h", "i">> /\ timing.arrivals[2].at = 3000
  /\ timing.arrivals[3].fd = "stderr" /\ timing.arrivals[3].at = 4000
  /\ timing.processStartTime = 1000
  /\ timing.setupTimeSeconds = 2
  /\ timing.generationTimeSeconds = 0
  /\ timing.timeSeconds = 3

\* the sum of a field over the entries of the prompts that resolved
RECURSIVE SumOver(_, _)
SumOver(entries, field) ==
  IF entries = <<>> THEN 0
  ELSE (IF Head(entries).error THEN 0
        ELSE CASE field = "tokenCount" -> Head(entries).tokenCount
               [] field = "timeSeconds" -> Head(entries).timeSeconds
               [] field = "setupTimeSeconds" -> Head(entries).setupTimeSeconds
               [] field = "generationTimeSeconds" -> Head(entries).generationTimeSeconds)
       + SumOver(Tail(entries), field)

\* C34: for a model benchmarked by benchmarkModel the prompts list holds one
\* entry per prompt run, in prompt order, and the totals (tokens, total
\* time, setup time, generation time) are the sums of those fields over the
\* prompts that resolved; a prompt that failed is recorded with an error and
\* adds nothing to a total.
C34_TotalsAreSumsOverPrompts ==
  batch.phase \in {"running", "done", "aborted"} =>
    /\ Len(batch.prompts) <= MaxPrompts
    /\ \A i \in 1..Len(batch.prompts) : batch.prompts[i].prompt = i
    /\ batch.totalTokens = SumOver(batch.prompts, "tokenCount")
    /\ batch.totalTime = SumOver(batch.prompts, "timeSeconds")
    /\ batch.totalSetupTime = SumOver(batch.prompts, "setupTimeSeconds")
    /\ batch.totalGenerationTime = SumOver(batch.prompts, "generationTimeSeconds")

\* the first prompt of a model resolved with four tokens after two seconds of
\* setup, the second failed: the totals are those of the first
C34_Witness ==
  /\ batch.phase = "running"
  /\ Len(batch.prompts) = MaxPrompts
  /\ ~batch.prompts[1].error /\ batch.prompts[1].setupTimeSeconds = 2
  /\ batch.prompts[2].error
  /\ batch.totalTokens = 4
  /\ batch.totalSetupTime = 2

\* invocation c of the stream handler has replied a terminal event
TerminalReplied(c) ==
  \E i \in 1..Len(calls[c].replies) : calls[c].replies[i].ch \in {"end", "error"}

\* the listeners on the service
ListenerCount ==
  Cardinality(listeners.data) + Cardinality(listeners.error)
    + Cardinality(listeners.end)

\* C35: once the stream-query handler has delivered the terminal event
\* (stream-end or stream-error) of a query, the data, error and end listeners
\* it registered are removed, and the listeners on the service are those of
\* the queries that have had no terminal event, three each, also after
\* stopAllProcesses.
C35_ListenersRemovedAfterTerminal ==
  /\ \A c \in StreamCalls :
       TerminalReplied(c) =>
         c \notin (listeners.data \cup listeners.error \cup listeners.end)
  /\ ListenerCount = 3 * Cardinality({c \in StreamCalls : ~TerminalReplied(c)})

\* two streaming queries were stopped by stopAllProcesses and closed; each
\* handler replied a terminal event and no listener is left
C35_Witness ==
  /\ nStops = 1
  /\ \A c \in CallIds :
       /\ calls[c].via = "stream" /\ calls[c].sigint = 1
       /\ calls[c].proc = "closed"
       /\ TerminalReplied(c)
  /\ ListenerCount = 0

\* C36: a loadModel call that fails (library missing, no listed model
\* matching the name, or the resolved path not on disk) leaves the
\* active-model slot as it was: a model loaded earlier stays active and a
\* later queryModel call uses it.
C36_FailedLoadKeepsActiveModel ==
  dir.loaded = "false" =>
    /\ activeModel = dir.before
    /\ dir.used # "" => dir.used = dir.before

\* a.gguf was loaded, then a load by a name nothing matches failed, and the
\* query that followed ran a.gguf
C36_Witness ==
  /\ dir.loads = 2
  /\ dir.loaded = "false"
  /\ dir.lib
  /\ dir.arg = "z"
  /\ dir.before = ModelsDir \o "/a.gguf"
  /\ activeModel = dir.before
  /\ dir.used = dir.before

\* C37: in runOnePrompt (and the spawn of the single-prompt benchmark that
\* arms a watchdog) standard input is ended right after the spawn and stays
\* ended, so whenever the watchdog fires, its quit keystroke is written to a
\* stream that has already been ended.
C37_QuitWrittenToEndedStdin ==
  \A r \in RunIds :
    /\ bench.runs[r].watchdog # "none" => bench.runs[r].stdinEnded
    /\ bench.runs[r].quitWritten =>
         bench.runs[r].stdinEnded /\ bench.runs[r].watchdog = "fired"

\* the watchdog of a silent run fired and wrote q to the ended stream
C37_Witness ==
  \E r \in RunIds :
    /\ bench.runs[r].proc = "running"
    /\ bench.runs[r].watchdog = "fired"
    /\ bench.runs[r].quitWritten
    /\ bench.runs[r].stdinEnded
    /\ bench.runs[r].out = <<>>

\* a benchmark child that was spawned and has had no close or error event
Alive(r) == bench.runs[r].proc = "running" /\ ~bench.runs[r].errored

\* C38: during a batch benchmark at most one inference process spawned by
\* the benchmark is alive at a time: a run is started only after the promise
\* of the run before it has settled, on its close or its error event.
C38_OneBenchmarkProcessAtATime ==
  /\ Cardinality({r \in RunIds : Alive(r)}) <= 1
  /\ \A r \in RunIds :
       (r > 1 /\ bench.runs[r].proc # "none") =>
         /\ bench.runs[r - 1].promise \in {"resolved", "rejected"}
         /\ ~Alive(r - 1)

\* the first run closed with output and resolved, and the second is running
C38_Witness ==
  /\ bench.n = 2
  /\ bench.runs[1].proc = "closed" /\ bench.runs[1].promise = "resolved"
  /\ bench.runs[1].out # <<>>
  /\ Alive(2)

\* the callers inside a build
Building == {c \in Callers : build.pc[c] = "building"}

====
